---------------------------- MODULE Spec2Model ----------------------------
(***************************************************************************)
(* Verification model of the window capture / restore engine               *)
(* (src/src/window_restore.py, src/src/window_capture.py, src/src/main.py). *)
(*                                                                         *)
(* The specifications of this module share one list of variables:         *)
(*   SnapSpec    - the snap-zone classifier and its restore-side inverse    *)
(*   MatchSpec   - the window matcher used by restore_window               *)
(*   Spec        - one restore_windows run over a layout, against a live    *)
(*                 desktop that changes between the engine's steps         *)
(*   RepeatSpec  - restore_windows invoked several times in a row on the    *)
(*                 same desktop, over layouts of session-managed records    *)
(*   ToggleSpec  - a restore_windows run with RESTORE_SESSION_MANAGED_APPS  *)
(*                 either on or off                                        *)
(*   ClassifySpec - detect_snap_type on rectangles of any geometry          *)
(*   CaptureSpec - window_capture.capture_windows over a live desktop       *)
(*   PresetSpec  - main.handle_restore_preset over the preset store         *)
(*   WindowSpec  - capture_windows over one window of any kind, on any set  *)
(*                 of monitors                                              *)
(*   StoreSpec   - PresetManager.save_preset, delete_preset and              *)
(*                 delete_preset_by_id over presets.json                    *)
(*   PlaceSpec   - the placement of one record on a live window, over sets  *)
(*                 of monitors and Win32 calls that raise                   *)
(*                                                                         *)
(* Text is modelled as a sequence of letters.  A letter is a TLA+ string;   *)
(* Lower maps an upper-case letter to its lower-case form, so that          *)
(* str.lower(), str.strip(), the `in` substring test and split('\\') are    *)
(* computed letter by letter as Python computes them.                      *)
(***************************************************************************)
EXTENDS Integers, Sequences, FiniteSets, TLC

VARIABLES
    \* ---- SnapSpec ----
    sWork,      \* work area (wx1, wy1, wx2, wy2) of the window's monitor
    sZone,      \* snap_type handed to apply_snap_layout
    sRect,      \* (x, y, w, h) handed to SetWindowPos by apply_snap_layout
    sClass,     \* result of detect_snap_type on the placed window
    sPc,        \* "idle" | "placed" | "classified"
    \* ---- MatchSpec ----
    mLive,      \* live windows in EnumWindows order
    mExe,       \* executable path of the record
    mTitle,     \* title of the record
    mFound,     \* handle returned by the matcher, or None
    mPc,        \* "idle" | "found"
    \* ---- Spec: a restore_windows run ----
    windows,                \* the layout handed to restore_windows
    invocations,            \* how many times the behaviour invokes restore_windows
    live,                   \* live windows in EnumWindows order
    running,                \* launched processes that have not shown a window yet
    pc,                     \* "idle" | "next" | "poll" | "done"
    idx,                    \* position of the for loop in windows (1-based)
    polls,                  \* iterations of the range(10) loop done for this record
    success_count,          \* window_restore.py:474
    launched_session_apps,  \* window_restore.py:475
    result,                 \* value returned by restore_windows
    runs,                   \* restore_windows invocations started
    \* history, for stating the properties
    attempts,               \* indices handed to restore_window in this run, in order
    outcome,                \* what came back for each of them
    oslog,                  \* calls made for the record in hand
    session_launches,       \* paths launched by the session-managed branch in this run
    session_toggle,         \* value of RESTORE_SESSION_MANAGED_APPS in this behaviour
    monitors,               \* what win32api.EnumDisplayMonitors() enumerates
    osfault,                \* the Win32 calls that raise in this behaviour
    \* ---- CaptureSpec: a capture_windows call ----
    cLive,      \* top-level windows in EnumWindows order
    cInclMin,   \* include_minimized
    cPos,       \* windows handed to the callback so far
    cStop,      \* the position at which EnumWindows raises, 0 if it does not
    cMonitors,  \* the monitors as get_monitor_info enumerates them
    cRecords,   \* the list `windows` of capture_windows
    cPc,        \* "idle" | "enum" | "returned"
    \* ---- PresetSpec: handle_restore_preset ----
    pStore,     \* condition of presets.json
    pBak,       \* whether presets.json.bak exists
    pName,      \* name given to the restore command
    pData,      \* what _load_presets returned
    pPc,        \* "idle" | "loaded" | "restoring" | "returned" | "raised"
    pResult,    \* value returned by handle_restore_preset
    \* ---- StoreSpec: the PresetManager calls that change presets.json ----
    stPresets,  \* data['presets'] of presets.json
    stNextId,   \* the next uuid4, as a serial number
    stLast      \* history: the last call, its argument, result and the store before it

snapVars == <<sWork, sZone, sRect, sClass, sPc>>

matchVars == <<mLive, mExe, mTitle, mFound, mPc>>

runVars == <<windows, invocations, live, running, pc, idx, polls, success_count,
             launched_session_apps, result, runs,
             attempts, outcome, oslog, session_launches, session_toggle,
             monitors, osfault>>

capVars == <<cLive, cInclMin, cPos, cStop, cMonitors, cRecords, cPc>>

presetVars == <<pStore, pBak, pName, pData, pPc, pResult>>

storeVars == <<stPresets, stNextId, stLast>>

vars == <<snapVars, matchVars, runVars, capVars, presetVars, storeVars>>

-----------------------------------------------------------------------------
(* Generic helpers *)

Abs(n) == IF n < 0 THEN 0 - n ELSE n

Max(a, b) == IF a >= b THEN a ELSE b

Min(a, b) == IF a <= b THEN a ELSE b

-----------------------------------------------------------------------------
(* Snap zones: window_capture.detect_snap_type and                         *)
(* window_restore.apply_snap_layout                                        *)

NoSnap == "none"

\* the eight snap_type values, in the order detect_snap_type tests them
SnapZones == <<"left", "right", "top", "bottom",
               "top_left", "top_right", "bottom_left", "bottom_right">>

SnapZoneSet == {SnapZones[i] : i \in 1..Len(SnapZones)}

\* window_capture.py:171
tol == 24

\* window_capture.py:173-180, the eight edge and size flags.
\* rect is (left, top, right, bottom) as GetWindowRect returns it.
snap_flags(rect, work) ==
    LET wx1 == work[1]  wy1 == work[2]  wx2 == work[3]  wy2 == work[4]
        mx1 == rect[1]  my1 == rect[2]  mx2 == rect[3]  my2 == rect[4]
        work_w == wx2 - wx1
        work_h == wy2 - wy1
        win_w == mx2 - mx1
        win_h == my2 - my1
    IN [left   |-> Abs(mx1 - wx1) <= tol,
        right  |-> Abs(mx2 - wx2) <= tol,
        top    |-> Abs(my1 - wy1) <= tol,
        bottom |-> Abs(my2 - wy2) <= tol,
        half_w |-> Abs(win_w - (work_w \div 2)) <= tol,
        half_h |-> Abs(win_h - (work_h \div 2)) <= tol,
        full_h |-> Abs(win_h - work_h) <= tol,
        full_w |-> Abs(win_w - work_w) <= tol]

\* the half-width test left out of the two side patterns
snap_pattern_loose(z, f) ==
    CASE z = "left"         -> f.left /\ f.full_h
      [] z = "right"        -> f.right /\ f.full_h
      [] z = "top"          -> f.top /\ f.full_w /\ f.half_h
      [] z = "bottom"       -> f.bottom /\ f.full_w /\ f.half_h
      [] z = "top_left"     -> f.left /\ f.top /\ f.half_w /\ f.half_h
      [] z = "top_right"    -> f.right /\ f.top /\ f.half_w /\ f.half_h
      [] z = "bottom_left"  -> f.left /\ f.bottom /\ f.half_w /\ f.half_h
      [] z = "bottom_right" -> f.right /\ f.bottom /\ f.half_w /\ f.half_h

\* window_capture.py:182-197, the flag conjunction of one pattern
snap_pattern(z, f) ==
    CASE z = "left"         -> f.left /\ f.full_h /\ f.half_w
      [] z = "right"        -> f.right /\ f.full_h /\ f.half_w
      [] z = "top"          -> f.top /\ f.full_w /\ f.half_h
      [] z = "bottom"       -> f.bottom /\ f.full_w /\ f.half_h
      [] z = "top_left"     -> f.left /\ f.top /\ f.half_w /\ f.half_h
      [] z = "top_right"    -> f.right /\ f.top /\ f.half_w /\ f.half_h
      [] z = "bottom_left"  -> f.left /\ f.bottom /\ f.half_w /\ f.half_h
      [] z = "bottom_right" -> f.right /\ f.bottom /\ f.half_w /\ f.half_h

\* the state test of line 160 left out
detect_snap_type_stateless(rect, work, state) ==
    LET f == snap_flags(rect, work)
        hits == {i \in 1..Len(SnapZones) : snap_pattern(SnapZones[i], f)}
    IN IF hits = {} THEN NoSnap
       ELSE SnapZones[CHOOSE i \in hits : \A j \in hits : i <= j]

\* the patterns tested from the end of the list
detect_snap_type_last(rect, work, state) ==
    IF state # "normal" THEN NoSnap
    ELSE LET f == snap_flags(rect, work)
             hits == {i \in 1..Len(SnapZones) : snap_pattern(SnapZones[i], f)}
         IN IF hits = {} THEN NoSnap
            ELSE SnapZones[CHOOSE i \in hits : \A j \in hits : i >= j]

\* window_capture.py:158-200.  The monitor lookup is the parameter work.
detect_snap_type(rect, work, state) ==
    IF state # "normal" THEN NoSnap
    ELSE LET f == snap_flags(rect, work)
             hits == {i \in 1..Len(SnapZones) : snap_pattern(SnapZones[i], f)}
         IN IF hits = {} THEN NoSnap
            ELSE SnapZones[CHOOSE i \in hits : \A j \in hits : i <= j]

\* a copy-paste slip in the layouts table: 'bottom' starts at the top edge
snap_layouts_slip(work) ==
    LET wx1 == work[1]  wy1 == work[2]  wx2 == work[3]  wy2 == work[4]
        work_w == wx2 - wx1
        work_h == wy2 - wy1
        half_w == Max(1, work_w \div 2)
        half_h == Max(1, work_h \div 2)
    IN [z \in SnapZoneSet |->
          CASE z = "left"         -> <<wx1, wy1, half_w, work_h>>
            [] z = "right"        -> <<wx1 + half_w, wy1, work_w - half_w, work_h>>
            [] z = "top"          -> <<wx1, wy1, work_w, half_h>>
            [] z = "bottom"       -> <<wx1, wy1, work_w, work_h - half_h>>
            [] z = "top_left"     -> <<wx1, wy1, half_w, half_h>>
            [] z = "top_right"    -> <<wx1 + half_w, wy1, work_w - half_w, half_h>>
            [] z = "bottom_left"  -> <<wx1, wy1 + half_h, half_w, work_h - half_h>>
            [] z = "bottom_right" -> <<wx1 + half_w, wy1 + half_h,
                                       work_w - half_w, work_h - half_h>>]

\* the second half given the floor as well, not the remainder
snap_layouts_even(work) ==
    LET wx1 == work[1]  wy1 == work[2]  wx2 == work[3]  wy2 == work[4]
        work_w == wx2 - wx1
        work_h == wy2 - wy1
        half_w == Max(1, work_w \div 2)
        half_h == Max(1, work_h \div 2)
    IN [z \in SnapZoneSet |->
          CASE z = "left"         -> <<wx1, wy1, half_w, work_h>>
            [] z = "right"        -> <<wx1 + half_w, wy1, half_w, work_h>>
            [] z = "top"          -> <<wx1, wy1, work_w, half_h>>
            [] z = "bottom"       -> <<wx1, wy1 + half_h, work_w, half_h>>
            [] z = "top_left"     -> <<wx1, wy1, half_w, half_h>>
            [] z = "top_right"    -> <<wx1 + half_w, wy1, half_w, half_h>>
            [] z = "bottom_left"  -> <<wx1, wy1 + half_h, half_w, half_h>>
            [] z = "bottom_right" -> <<wx1 + half_w, wy1 + half_h, half_w, half_h>>]

\* window_restore.py:283-298, the layouts table: zone -> (x, y, w, h)
snap_layouts(work) ==
    LET wx1 == work[1]  wy1 == work[2]  wx2 == work[3]  wy2 == work[4]
        work_w == wx2 - wx1
        work_h == wy2 - wy1
        half_w == Max(1, work_w \div 2)
        half_h == Max(1, work_h \div 2)
    IN [z \in SnapZoneSet |->
          CASE z = "left"         -> <<wx1, wy1, half_w, work_h>>
            [] z = "right"        -> <<wx1 + half_w, wy1, work_w - half_w, work_h>>
            [] z = "top"          -> <<wx1, wy1, work_w, half_h>>
            [] z = "bottom"       -> <<wx1, wy1 + half_h, work_w, work_h - half_h>>
            [] z = "top_left"     -> <<wx1, wy1, half_w, half_h>>
            [] z = "top_right"    -> <<wx1 + half_w, wy1, work_w - half_w, half_h>>
            [] z = "bottom_left"  -> <<wx1, wy1 + half_h, half_w, work_h - half_h>>
            [] z = "bottom_right" -> <<wx1 + half_w, wy1 + half_h,
                                       work_w - half_w, work_h - half_h>>]

\* GetWindowRect of a window placed at (x, y, w, h): (left, top, right, bottom)
RectOfPos(p) == <<p[1], p[2], p[1] + p[3], p[2] + p[4]>>

-----------------------------------------------------------------------------
(* Text: Python str as a sequence of one-character strings *)

\* the lower-case form of each upper-case letter
LowerOf ==
    [A |-> "a", B |-> "b", C |-> "c", D |-> "d", E |-> "e", F |-> "f", G |-> "g",
     H |-> "h", I |-> "i", J |-> "j", K |-> "k", L |-> "l", M |-> "m", N |-> "n",
     O |-> "o", P |-> "p", Q |-> "q", R |-> "r", S |-> "s", T |-> "t", U |-> "u",
     V |-> "v", W |-> "w", X |-> "x", Y |-> "y", Z |-> "z"]

\* str.lower() on one character
LowerLetter(c) == IF c \in DOMAIN LowerOf THEN LowerOf[c] ELSE c

\* str.lower()
Lower(s) == [i \in 1..Len(s) |-> LowerLetter(s[i])]

\* str.strip(): leading and trailing blanks removed
Strip(s) ==
    LET keep == {i \in 1..Len(s) : s[i] # " "}
    IN IF keep = {} THEN <<>>
       ELSE SubSeq(s, CHOOSE i \in keep : \A j \in keep : i <= j,
                      CHOOSE i \in keep : \A j \in keep : i >= j)

\* the Python test `needle in hay` on str
Contains(needle, hay) ==
    \E i \in 0..(Len(hay) - Len(needle)) : SubSeq(hay, i + 1, i + Len(needle)) = needle

\* executable.split('\\')[-1]
LastPathPart(path) ==
    LET seps == {i \in 1..Len(path) : path[i] = "\\"}
    IN IF seps = {} THEN path
       ELSE SubSeq(path, (CHOOSE i \in seps : \A j \in seps : i >= j) + 1, Len(path))

\* executable.split('\\')[-1].lower()  (window_restore.py:68, 114, 145, 391)
exe_name(path) == Lower(LastPathPart(path))

-----------------------------------------------------------------------------
(* The live desktop as the Win32 calls of the engine see it *)

\* Python None for an Optional[int] handle; window handles are >= 1
None == 0

\* psutil.Process(pid).name() raised (access denied, process gone)
NoProc == <<"?">>

\* GetWindowRect of a minimized window: the off-screen icon slot
MinimizedRect == <<-32000, -32000, -31840, -31972>>

\* work area (left, top, right, bottom) of the monitor the desktop windows are on
DesktopWork == <<0, 0, 1920, 1040>>

\* A live top-level window:
\*   hwnd     handle
\*   visible  IsWindowVisible
\*   title    GetWindowText
\*   proc     process image name, or NoProc when it cannot be read
\*   show     "normal" | "maximized" | "minimized"  (GetWindowPlacement)
\*   pos      (x, y, w, h) of the restored (normal) placement
\* GetWindowRect(hwnd): (left, top, right, bottom) of the window as shown
GetWindowRect(w) ==
    CASE w.show = "normal"    -> RectOfPos(w.pos)
      [] w.show = "maximized" -> DesktopWork
      [] w.show = "minimized" -> MinimizedRect

\* window_restore.py:186-191, area(hwnd)
area(w) ==
    LET r == GetWindowRect(w)
    IN Max(0, (r[3] - r[1]) * (r[4] - r[2]))

\* the callback of find_window_by_executable without the IsWindowVisible test
find_window_by_executable_hidden(desk, executable, title) ==
    LET target_exe == exe_name(executable)
        hit(w) == /\ w.title # <<>>
                  /\ w.proc # NoProc
                  /\ Lower(w.proc) = target_exe
                  /\ ~(title # <<>> /\ ~Contains(Lower(title), Lower(w.title)))
        matched == SelectSeq(desk, hit)
    IN IF matched # <<>> THEN matched[1].hwnd ELSE None

\* window_restore.py:57-109: first window, in enumeration order, that is
\* visible, titled, of the target process and (when a title is given)
\* contains the title ignoring case
find_window_by_executable(desk, executable, title) ==
    LET target_exe == exe_name(executable)
        hit(w) == /\ w.visible
                  /\ w.title # <<>>
                  /\ w.proc # NoProc
                  /\ Lower(w.proc) = target_exe
                  /\ ~(title # <<>> /\ ~Contains(Lower(title), Lower(w.title)))
        matched == SelectSeq(desk, hit)
    IN IF matched # <<>> THEN matched[1].hwnd ELSE None

\* window_restore.py:112-138: all windows of the target process, in
\* enumeration order
find_windows_by_executable(desk, executable) ==
    LET target_exe == exe_name(executable)
        hit(w) == /\ w.visible
                  /\ w.title # <<>>
                  /\ w.proc # NoProc
                  /\ Lower(w.proc) = target_exe
    IN SelectSeq(desk, hit)

\* window_restore.py:141-170: first window of the target process whose
\* trimmed title equals the trimmed target title ignoring case.
\* restore_window never calls it.
find_window_by_executable_exact_title(desk, executable, title) ==
    IF title = <<>> THEN None
    ELSE LET target_exe == exe_name(executable)
             target_title == Lower(Strip(title))
             hit(w) == /\ w.visible
                       /\ w.title # <<>>
                       /\ w.proc # NoProc
                       /\ Lower(w.proc) = target_exe
                       /\ Lower(Strip(w.title)) = target_title
             matches == SelectSeq(desk, hit)
         IN IF matches # <<>> THEN matches[1].hwnd ELSE None

\* window_restore.py:173-192.  hwnds are the candidate windows in
\* enumeration order; sorted(..., reverse=True) is stable, so among the
\* windows of largest area the first candidate is returned.
choose_best_window(hwnds, desired_title) ==
    IF hwnds = <<>> THEN None
    ELSE LET desired == Lower(desired_title)
             named == {i \in 1..Len(hwnds) :
                          desired_title # <<>> /\ Contains(desired, Lower(hwnds[i].title))}
             widest == {i \in 1..Len(hwnds) :
                          \A j \in 1..Len(hwnds) : area(hwnds[i]) >= area(hwnds[j])}
         IN IF named # {}
            THEN hwnds[CHOOSE i \in named : \A j \in named : i <= j].hwnd
            ELSE hwnds[CHOOSE i \in widest : \A j \in widest : i <= j].hwnd

\* window_restore.py:413, 431, 443:
\*   find_window_by_executable(executable, title)
\*     or _choose_best_window(find_windows_by_executable(executable), title)
find_best(desk, executable, title) ==
    LET first == find_window_by_executable(desk, executable, title)
    IN IF first # None THEN first
       ELSE choose_best_window(find_windows_by_executable(desk, executable), title)

-----------------------------------------------------------------------------
(* Sample texts *)

\* C:\G\Chrome.exe
ChromePath == <<"C",":","\\","G","\\","C","h","r","o","m","e",".","e","x","e">>

\* D:\chrome.exe : the same image name under another path
ChromePathD == <<"D",":","\\","c","h","r","o","m","e",".","e","x","e">>

\* C:\W\notepad.exe
NotepadPath == <<"C",":","\\","W","\\","n","o","t","e","p","a","d",".","e","x","e">>

ChromeProc == <<"c","h","r","o","m","e",".","e","x","e">>

ChromeProcUpper == <<"C","H","R","O","M","E",".","E","X","E">>

NotepadProc == <<"n","o","t","e","p","a","d",".","e","x","e">>

TitleGitHub == <<"G","i","t","H","u","b">>

\* "github " : other case, trailing blank
TitleGitHubLoose == <<"g","i","t","h","u","b"," ">>

\* "GitHub - Pricing"
TitlePricing == <<"G","i","t","H","u","b"," ","-"," ","P","r","i","c","i","n","g">>

TitleNotes == <<"N","o","t","e","s">>

TitleInbox == <<"I","n","b","o","x">>

NoTitle == <<>>

PosSmall == <<100, 100, 400, 300>>

PosBig == <<0, 0, 800, 600>>

-----------------------------------------------------------------------------
(* Values of the variables a specification does not use *)

SnapIdle ==
    /\ sWork = <<0, 0, 0, 0>>
    /\ sZone = NoSnap
    /\ sRect = <<0, 0, 0, 0>>
    /\ sClass = NoSnap
    /\ sPc = "idle"

MatchIdle ==
    /\ mLive = <<>>
    /\ mExe = <<>>
    /\ mTitle = <<>>
    /\ mFound = None
    /\ mPc = "idle"

\* restore_windows has no return value before it returns
NoResult == -1

\* no Win32 call raises: enum is whether EnumDisplayMonitors raises, nearest
\* the monitor MonitorFromWindow answers with (0: it raises), snap_calls and
\* pos_calls the ordinals of the window calls that raise in apply_snap_layout
\* and in position_window
NoFault == [enum |-> FALSE, nearest |-> 1, snap_calls |-> {}, pos_calls |-> {}]

RunIdle ==
    /\ windows = <<>>
    /\ invocations = 0
    /\ live = <<>>
    /\ running = {}
    /\ pc = "idle"
    /\ idx = 0
    /\ polls = 0
    /\ success_count = 0
    /\ launched_session_apps = {}
    /\ result = NoResult
    /\ runs = 0
    /\ attempts = <<>>
    /\ outcome = <<>>
    /\ oslog = <<>>
    /\ session_launches = <<>>
    /\ session_toggle = TRUE
    /\ monitors = <<>>
    /\ osfault = NoFault

CapIdle ==
    /\ cLive = <<>>
    /\ cInclMin = FALSE
    /\ cPos = 0
    /\ cStop = 0
    /\ cMonitors = [raises |-> FALSE, list |-> <<>>]
    /\ cRecords = <<>>
    /\ cPc = "idle"

\* no call made yet
NoCall == [op |-> "none", arg |-> <<>>, ret |-> FALSE, before |-> <<>>]

StoreIdle ==
    /\ stPresets = <<>>
    /\ stNextId = 1
    /\ stLast = NoCall

PresetIdle ==
    /\ pStore = "missing"
    /\ pBak = FALSE
    /\ pName = <<>>
    /\ pData = <<>>
    /\ pPc = "idle"
    /\ pResult = NoResult

-----------------------------------------------------------------------------
(* MatchSpec: the matcher applied to one snapshot of the live window set   *)

\* most live windows in a snapshot
MaxLive == 2

\* windows a snapshot is drawn from (hwnd is assigned by position)
OrdinaryWindows ==
    [hwnd : {0}, visible : {TRUE},
     title : {TitleGitHub, TitleGitHubLoose, TitlePricing, TitleNotes},
     proc : {ChromeProc, ChromeProcUpper, NotepadProc},
     show : {"normal"}, pos : {PosSmall, PosBig}]

\* windows the enumeration callbacks skip: hidden, untitled, process unreadable
SkippedWindows ==
    {[hwnd |-> 0, visible |-> FALSE, title |-> TitleGitHub, proc |-> ChromeProc,
      show |-> "normal", pos |-> PosBig],
     [hwnd |-> 0, visible |-> TRUE, title |-> NoTitle, proc |-> ChromeProc,
      show |-> "normal", pos |-> PosBig],
     [hwnd |-> 0, visible |-> TRUE, title |-> TitleGitHub, proc |-> NoProc,
      show |-> "normal", pos |-> PosBig]}

SnapshotWindows == OrdinaryWindows \cup SkippedWindows

\* the window at position i of the enumeration gets handle i
WithHandles(ws) == [i \in 1..Len(ws) |-> [ws[i] EXCEPT !.hwnd = i]]

\* the snapshots of at most most windows
Snapshots(most) ==
    UNION {{WithHandles(ws) : ws \in [1..n -> SnapshotWindows]} : n \in 0..most}

MatchTargetTitles == {NoTitle, TitleGitHub, TitleGitHubLoose, TitleInbox}

MatchInit ==
    /\ SnapIdle
    /\ RunIdle
    /\ CapIdle
    /\ PresetIdle
    /\ StoreIdle
    /\ mLive \in Snapshots(MaxLive)
    /\ mExe \in {ChromePath, NotepadPath}
    /\ mTitle \in MatchTargetTitles
    /\ mFound = None
    /\ mPc = "idle"

\* the search of restore_window, window_restore.py:431
MatchFind ==
    /\ mPc = "idle"
    /\ mFound' = find_best(mLive, mExe, mTitle)
    /\ mPc' = "found"
    /\ UNCHANGED <<mLive, mExe, mTitle>>

MatchNext == MatchFind /\ UNCHANGED <<storeVars, snapVars, runVars, capVars, presetVars>>

MatchSpec == MatchInit /\ [][MatchNext]_vars

\* a window of the target program as the claims describe it: visible,
\* titled, process name equal to the base filename of the path ignoring case
OfTarget(w) ==
    /\ w.visible
    /\ w.title # <<>>
    /\ w.proc # NoProc
    /\ Lower(w.proc) = Lower(LastPathPart(mExe))

TargetIdx == {i \in 1..Len(mLive) : OfTarget(mLive[i])}

\* title equal to the target title, case-insensitive and trimmed
ExactIdx == {i \in TargetIdx : Lower(Strip(mLive[i].title)) = Lower(Strip(mTitle))}

\* title containing the target title, case-insensitive
ContainsIdx == {i \in TargetIdx : Contains(Lower(mTitle), Lower(mLive[i].title))}

FoundIdx == {i \in 1..Len(mLive) : mLive[i].hwnd = mFound}

\* C7 as stated: with both an exact-title window and a merely-containing
\* window of the target executable live, the matcher returns the exact-title
\* window, whatever the enumeration order.
C7_ExactTitleFirst ==
    (/\ mPc = "found"
     /\ mTitle # NoTitle
     /\ ExactIdx # {}
     /\ ContainsIdx \ ExactIdx # {})
        => FoundIdx \subseteq ExactIdx /\ FoundIdx # {}

\* C8 as stated: with an empty target title, or no window of the target
\* executable whose title equals or contains it, the matcher returns the
\* window of the target executable with the largest area, the first such in
\* enumeration order.
C8_LargestArea ==
    (/\ mPc = "found"
     /\ TargetIdx # {}
     /\ (mTitle = NoTitle \/ (ExactIdx = {} /\ ContainsIdx = {})))
        => \E i \in TargetIdx :
              /\ mFound = mLive[i].hwnd
              /\ \A j \in TargetIdx : area(mLive[i]) >= area(mLive[j])
              /\ \A j \in TargetIdx : area(mLive[j]) = area(mLive[i]) => i <= j

\* C9: a returned handle belongs to a visible, titled window whose process
\* name equals the base filename of the target path ignoring case, and none
\* is returned exactly when the snapshot holds no such window.
C9_SameProgram ==
    mPc = "found" =>
        /\ mFound # None => (FoundIdx # {} /\ FoundIdx \subseteq TargetIdx)
        /\ mFound = None <=> TargetIdx = {}

\* C9 witness: the window found runs under an upper-case process name, a
\* hidden window of the same program precedes it, the target path is mixed case
C9_Witness ==
    /\ mPc = "found"
    /\ mExe = ChromePath
    /\ Len(mLive) = 2
    /\ ~mLive[1].visible
    /\ mLive[2].proc = ChromeProcUpper
    /\ mFound = 2

-----------------------------------------------------------------------------
(* SnapSpec: place a window in a zone of a work area, then classify it.     *)

\* work areas up to MaxWorkDim pixels wide/high are enumerated exhaustively
MaxWorkDim == 56

\* first width/height at which every zone round-trips: 2 * tol + 2
MinRoundTripDim == 2 * tol + 2

WorkDims == 1..MaxWorkDim

\* (wx1, wy1) of the monitors: a primary one and one left of / above it
WorkOrigins == {<<0, 0>>, <<-1921, 40>>}

\* full-size work areas, even and odd
BigWorkSizes == {<<1920, 1080>>, <<1921, 1041>>, <<1920, 40>>, <<33, 1080>>}

WorkAreas ==
    {<<o[1], o[2], o[1] + w, o[2] + h>> : o \in WorkOrigins, w \in WorkDims, h \in WorkDims}
    \cup {<<o[1], o[2], o[1] + s[1], o[2] + s[2]>> : o \in WorkOrigins, s \in BigWorkSizes}

SnapInit ==
    /\ MatchIdle
    /\ RunIdle
    /\ CapIdle
    /\ PresetIdle
    /\ StoreIdle
    /\ sWork \in WorkAreas
    /\ sZone = NoSnap
    /\ sRect = <<0, 0, 0, 0>>
    /\ sClass = NoSnap
    /\ sPc = "idle"

\* apply_snap_layout(hwnd, z): window_restore.py:277-311
SnapApply(z) ==
    /\ sPc = "idle"
    /\ sZone' = z
    /\ sRect' = snap_layouts(sWork)[z]
    /\ sPc' = "placed"
    /\ UNCHANGED <<sWork, sClass>>

\* detect_snap_type on the window just placed (state normal after SW_RESTORE)
SnapClassify ==
    /\ sPc = "placed"
    /\ sClass' = detect_snap_type(RectOfPos(sRect), sWork, "normal")
    /\ sPc' = "classified"
    /\ UNCHANGED <<sWork, sZone, sRect>>

SnapNext ==
    \/ (\E z \in SnapZoneSet : SnapApply(z)) /\ UNCHANGED <<storeVars, matchVars, runVars, capVars, presetVars>>
    \/ SnapClassify /\ UNCHANGED <<storeVars, matchVars, runVars, capVars, presetVars>>

SnapSpec == SnapInit /\ [][SnapNext]_vars

WorkW == sWork[3] - sWork[1]

WorkH == sWork[4] - sWork[2]

\* C10 as stated: for every zone z and every work area wa,
\* classify(zoneRect(z, wa), wa) = z, small work areas included.
C10_AsStated == sPc = "classified" => sClass = sZone

\* C10 amended: classify(zoneRect(z, wa), wa) = z for every zone z and every
\* work area whose width and height are both at least 2*tol + 2 = 50 pixels,
\* odd widths and heights included.
C10_RoundTrip ==
    (sPc = "classified" /\ WorkW >= MinRoundTripDim /\ WorkH >= MinRoundTripDim)
        => sClass = sZone

\* C10 witness: an odd-sized work area at the threshold, corner zone classified
C10_Witness ==
    /\ sPc = "classified"
    /\ WorkW = MinRoundTripDim + 1
    /\ WorkH = MinRoundTripDim
    /\ sZone = "bottom_right"
    /\ sClass = "bottom_right"

-----------------------------------------------------------------------------
(* The restore engine: window_restore.restore_window / restore_windows     *)

MsedgeProc == <<"m","s","e","d","g","e",".","e","x","e">>

FirefoxProc == <<"f","i","r","e","f","o","x",".","e","x","e">>

BraveProc == <<"b","r","a","v","e",".","e","x","e">>

OperaProc == <<"o","p","e","r","a",".","e","x","e">>

\* window_restore.py:18-24
SESSION_MANAGED_APPS == {ChromeProc, MsedgeProc, FirefoxProc, BraveProc, OperaProc}

\* window_restore.py:16
RESTORE_SESSION_MANAGED_APPS == TRUE

\* window_restore.py:441, range(10)
PollAttempts == 10

\* window_restore.py:218, 232
MinWidth == 320

\* window_restore.py:219, 233
MinHeight == 220

\* win32api.EnumDisplayMonitors(): the work areas, in enumeration order
Monitors == <<[work |-> DesktopWork, info |-> TRUE]>>

\* window_restore.py:391-392
is_session_managed(r) == exe_name(r.executable) \in SESSION_MANAGED_APPS

\* the policy test of line 405 left out
policy_skips_never(managed, toggle) == FALSE

\* window_restore.py:405: a session-managed record is skipped by policy
policy_skips(managed, toggle) == managed /\ ~toggle

\* a launch whether or not the search found a window
no_window_always(h) == TRUE

\* window_restore.py:433, `if not hwnd`
no_window(h) == h = None

\* snap_type taken out of the entry with pop() instead of read with get()
record_reads_pop(ws, i) ==
    IF ws[i].dict THEN [ws EXCEPT ![i].snap_type = NoSnap] ELSE ws

\* window_restore.py:381-390: the layout after restore_window has read entry
\* i with dict.get(), which leaves the dict as it is
record_reads(ws, i) == ws

\* the minimized test moved below the session-managed branch
skip_minimized_late(r) == r.state = "minimized" /\ ~is_session_managed(r)

\* window_restore.py:395
skip_minimized(r) == r.state = "minimized"

\* the launched set is never consulted
already_launched_ignored(executable, launched) == FALSE

\* window_restore.py:421
already_launched(executable, launched) == executable \in launched

\* window_restore.py:475
new_launched_set(previous) == {}

\* the for loop left at the first exception (no try/except around the call)
after_exception_abort(i, n) == n + 1

\* window_restore.py:477-482: the exception is logged, the loop goes on
after_exception(i, n) == i + 1

\* range(11): one iteration too many
poll_exhausted_late(n) == n >= PollAttempts + 1

\* window_restore.py:441: the range(10) loop is over after n iterations
poll_exhausted(n) == n >= PollAttempts

\* Python bool as the int it is: True == 1, False == 0
PyBool(b) == IF b THEN 1 ELSE 0

\* "True if all windows restored", as the docstring has it
return_value_all(count, n) == PyBool(count = n)

\* window_restore.py:486
return_value(count, n) == PyBool(count > 0)

-----------------------------------------------------------------------------
(* Win32 calls on the live window set *)

WinIdx(desk, h) == CHOOSE i \in 1..Len(desk) : desk[i].hwnd = h

WinOf(desk, h) == desk[WinIdx(desk, h)]

\* one logged call: rectangle of the window before and after it
Call(op, h, arg, before, after) ==
    [op |-> op, hwnd |-> h, arg |-> arg, before |-> before, after |-> after]

\* ShowWindow(hwnd, SW_RESTORE): a minimized or maximized window goes back
\* to its restored size and position
ShowWindowRestore(desk, h) ==
    [desk EXCEPT ![WinIdx(desk, h)] = [@ EXCEPT !.show = "normal", !.visible = TRUE]]

\* ShowWindow(hwnd, SW_MAXIMIZE)
ShowWindowMaximize(desk, h) ==
    [desk EXCEPT ![WinIdx(desk, h)] = [@ EXCEPT !.show = "maximized", !.visible = TRUE]]

\* SetWindowPos(hwnd, 0, x, y, w, h, SWP_NOZORDER | SWP_NOACTIVATE)
SetWindowPos(desk, h, pos) ==
    [desk EXCEPT ![WinIdx(desk, h)] = [@ EXCEPT !.pos = pos]]

\* SetForegroundWindow(hwnd): the window goes to the top of the z-order,
\* which is the order EnumWindows walks
SetForegroundWindow(desk, h) ==
    LET other(w) == w.hwnd # h
    IN <<WinOf(desk, h)>> \o SelectSeq(desk, other)

LogShowRestore(desk, h) ==
    Call("ShowWindow", h, <<"SW_RESTORE">>,
         GetWindowRect(WinOf(desk, h)), GetWindowRect(WinOf(ShowWindowRestore(desk, h), h)))

\* window_restore.py:414-420: a found window of a session-managed app is
\* restored and brought to the foreground
surface_window(desk, h) ==
    LET d1 == ShowWindowRestore(desk, h)
        d2 == SetForegroundWindow(d1, h)
    IN [desk |-> d2,
        log |-> <<LogShowRestore(desk, h),
                  Call("SetForegroundWindow", h, <<>>,
                       GetWindowRect(WinOf(d1, h)), GetWindowRect(WinOf(d2, h)))>>]

\* ShowWindow(hwnd, SW_MINIMIZE)
ShowWindowMinimize(desk, h) ==
    [desk EXCEPT ![WinIdx(desk, h)] = [@ EXCEPT !.show = "minimized"]]

\* what the log holds in place of the rectangle after a call that raised
Raised == <<"raised">>

WindowCall(op, arg) == [op |-> op, arg |-> arg]

\* the effect of one window call that does not raise
WinCall(desk, h, c) ==
    IF c.op = "SetWindowPos" THEN SetWindowPos(desk, h, SubSeq(c.arg, 1, 4))
    ELSE IF c.op = "SetForegroundWindow" THEN SetForegroundWindow(desk, h)
    ELSE IF c.arg = <<"SW_RESTORE">> THEN ShowWindowRestore(desk, h)
    ELSE IF c.arg = <<"SW_MAXIMIZE">> THEN ShowWindowMaximize(desk, h)
    ELSE ShowWindowMinimize(desk, h)

\* the statements of one try block that call into the window, in program
\* order: the calls numbered in `raising` raise, and the first that does ends
\* the block (window_restore.py:273, 312); n calls were made before ops
RECURSIVE win_calls(_, _, _, _, _)
win_calls(desk, h, ops, raising, n) ==
    IF ops = <<>> THEN [desk |-> desk, log |-> <<>>, ok |-> TRUE]
    ELSE LET c == Head(ops)
             before == GetWindowRect(WinOf(desk, h))
         IN IF n + 1 \in raising
            THEN [desk |-> desk, log |-> <<Call(c.op, h, c.arg, before, Raised)>>,
                  ok |-> FALSE]
            ELSE LET d1 == WinCall(desk, h, c)
                     rest == win_calls(d1, h, Tail(ops), raising, n + 1)
                 IN [desk |-> rest.desk,
                     log |-> <<Call(c.op, h, c.arg, before, GetWindowRect(WinOf(d1, h)))>>
                               \o rest.log,
                     ok |-> rest.ok]

\* window_restore.py:277-314: osfault.nearest is the monitor MonitorFromWindow
\* answers with, 0 if the call raises
apply_snap_layout(desk, h, snap_type) ==
    IF snap_type = NoSnap
    THEN [ok |-> FALSE, desk |-> desk, log |-> <<>>]
    ELSE IF osfault.nearest \notin 1..Len(monitors) \/ ~monitors[osfault.nearest].info
    THEN [ok |-> FALSE, desk |-> desk, log |-> <<>>]
    ELSE IF snap_type \notin SnapZoneSet
    THEN [ok |-> FALSE, desk |-> desk, log |-> <<>>]
    ELSE LET rect == snap_layouts(monitors[osfault.nearest].work)[snap_type]
             run == win_calls(desk, h,
                              <<WindowCall("ShowWindow", <<"SW_RESTORE">>),
                                WindowCall("SetWindowPos",
                                           rect \o <<"SWP_NOACTIVATE", "SWP_NOZORDER">>)>>,
                              osfault.snap_calls, 0)
         IN [ok |-> run.ok, desk |-> run.desk, log |-> run.log]

\* window_restore.py:224-225
intersects(a, b) == ~(a[3] <= b[1] \/ a[1] >= b[3] \/ a[4] <= b[2] \/ a[2] >= b[4])

\* the saved size taken as it is
normalize_size_kept(width, height) == <<width, height>>

\* window_restore.py:218-219
normalize_size(width, height) == <<Max(MinWidth, width), Max(MinHeight, height)>>

\* always the primary monitor
target_index_primary(monitor, n) == 0

\* window_restore.py:229: the saved monitor index if still valid, else 0
target_index(monitor, n) == IF 0 <= monitor /\ monitor < n THEN monitor ELSE 0

\* window_restore.py:209-214: the work areas GetMonitorInfo could read
readable_work_areas(mons) ==
    LET readable(m) == m.info
        picked == SelectSeq(mons, readable)
    IN [i \in 1..Len(picked) |-> picked[i].work]

\* window_restore.py:208-237: the (x, y, width, height) handed to SetWindowPos,
\* Raised if GetMonitorInfo of the fallback monitor raises (line 230)
clamp_to_work_areas(x, y, width, height, monitor) ==
    LET work_areas == readable_work_areas(monitors)
    IN IF work_areas = <<>> THEN <<x, y, width, height>>
       ELSE LET w1 == normalize_size(width, height)[1]
                h1 == normalize_size(width, height)[2]
                rect == <<x, y, x + w1, y + h1>>
            IN IF \E i \in 1..Len(work_areas) : intersects(rect, work_areas[i])
               THEN <<x, y, w1, h1>>
               ELSE LET target_idx == target_index(monitor, Len(monitors))
                        target == monitors[target_idx + 1]
                        wa == target.work
                        max_w == Max(MinWidth, wa[3] - wa[1])
                        max_h == Max(MinHeight, wa[4] - wa[2])
                        w2 == Min(w1, max_w)
                        h2 == Min(h1, max_h)
                    IN IF ~target.info THEN Raised
                       ELSE <<wa[1] + Max(0, ((wa[3] - wa[1]) - w2) \div 2),
                              wa[2] + Max(0, ((wa[4] - wa[2]) - h2) \div 2),
                              w2, h2>>

\* window_restore.py:260-269: the calls that apply the target state
state_calls(state, activate) ==
    IF state = "maximized" THEN <<WindowCall("ShowWindow", <<"SW_MAXIMIZE">>)>>
    ELSE IF state = "minimized" THEN <<WindowCall("ShowWindow", <<"SW_MINIMIZE">>)>>
    ELSE IF activate THEN <<WindowCall("SetForegroundWindow", <<>>)>>
    ELSE <<>>

\* maximizing before the position and size are set
calls_in_order_state_first(restore, set_pos, apply_state) ==
    restore \o apply_state \o set_pos

\* window_restore.py:239-269: restore, then position and size, then state
calls_in_order(restore, set_pos, apply_state) ==
    restore \o set_pos \o apply_state

\* window_restore.py:195-274
position_window(desk, h, x, y, width, height, state, monitor, activate) ==
    LET pos == clamp_to_work_areas(x, y, width, height, monitor)
        flags == IF activate THEN <<"SWP_NOZORDER">>
                 ELSE <<"SWP_NOZORDER", "SWP_NOACTIVATE">>
        run == win_calls(desk, h,
                         calls_in_order(<<WindowCall("ShowWindow", <<"SW_RESTORE">>)>>,
                                        <<WindowCall("SetWindowPos", pos \o flags)>>,
                                        state_calls(state, activate)),
                         osfault.pos_calls, 0)
    IN IF osfault.enum \/ pos = Raised
       THEN [desk |-> desk, log |-> <<>>]
       ELSE [desk |-> run.desk, log |-> run.log]

\* placing with activate=True
activate_always == TRUE

\* window_restore.py:15
RESTORE_BROWSER_TABS == FALSE

\* window_restore.py:453: restore_window passes activate=False
activate_on_restore == FALSE

\* the generic placement whether or not the record has a snap_type
place_window_generic(desk, h, r) ==
    position_window(desk, h, r.pos[1], r.pos[2], r.pos[3], r.pos[4], r.state, r.monitor,
                    activate_on_restore)

\* window_restore.py:317-368: the browser window is brought to the foreground
\* and the tab addresses are typed into it; an error ends it silently
restore_tabs(desk, browser_executable) ==
    LET h == find_window_by_executable(desk, browser_executable, NoTitle)
        d1 == SetForegroundWindow(desk, h)
    IN IF h = None THEN [desk |-> desk, log |-> <<>>]
       ELSE [desk |-> d1,
             log |-> <<Call("SetForegroundWindow", h, <<>>,
                            GetWindowRect(WinOf(desk, h)), GetWindowRect(WinOf(d1, h)))>>]

\* the placement without the fallback of line 453
place_window_snap_only(desk, h, r) ==
    IF r.snap_type # NoSnap
    THEN [desk |-> apply_snap_layout(desk, h, r.snap_type).desk,
          log |-> apply_snap_layout(desk, h, r.snap_type).log]
    ELSE place_window_generic(desk, h, r)

\* window_restore.py:451-457: snap layout, else generic placement on the
\* window as the failed snap attempt left it; then the tabs, if enabled
place_window(desk, h, r) ==
    LET snap == apply_snap_layout(desk, h, r.snap_type)
        generic == position_window(snap.desk, h, r.pos[1], r.pos[2], r.pos[3], r.pos[4],
                                   r.state, r.monitor, activate_on_restore)
        placed == IF snap.ok THEN [desk |-> snap.desk, log |-> snap.log]
                  ELSE [desk |-> generic.desk, log |-> snap.log \o generic.log]
        tabbed == restore_tabs(placed.desk, r.executable)
    IN IF r.tabs /\ RESTORE_BROWSER_TABS
       THEN [desk |-> tabbed.desk, log |-> placed.log \o tabbed.log]
       ELSE placed

\* one search of the live window set (window_restore.py:413, 431, 443)
LogSearch(h) == Call("EnumWindows", h, <<>>, <<>>, <<>>)

\* launch_program(executable), window_restore.py:27-54
LogLaunch(executable, ok) == Call("launch_program", PyBool(ok), executable, <<>>, <<>>)

-----------------------------------------------------------------------------
(* Spec: restore_windows runs over a layout against a live desktop *)

\* most entries in a layout
MaxRecords == 3

\* most restore_windows runs in a behaviour
MaxRuns == 2

\* most live windows on the desktop
MaxWindows == 2

\* a rectangle that intersects no work area
PosOffScreen == <<5000, 100, 200, 100>>

Entry(exe, title, pos, state, monitor, snap) ==
    [dict |-> TRUE, executable |-> exe, title |-> title, pos |-> pos,
     state |-> state, monitor |-> monitor, snap_type |-> snap, tabs |-> FALSE]

\* a layout entry that is not a dict: window_info.get raises (line 381)
BadEntry ==
    [dict |-> FALSE, executable |-> <<>>, title |-> <<>>, pos |-> <<0, 0, 0, 0>>,
     state |-> "normal", monitor |-> 0, snap_type |-> NoSnap, tabs |-> FALSE]

\* the entries layouts are built from
Entries ==
    {BadEntry,
     Entry(ChromePath, TitleGitHub, PosOffScreen, "normal", 1, "left"),
     Entry(ChromePath, TitleGitHub, PosSmall, "minimized", 0, NoSnap),
     Entry(NotepadPath, NoTitle, PosOffScreen, "maximized", 1, NoSnap),
     Entry(NotepadPath, TitleNotes, PosBig, "normal", 0, "top_right"),
     Entry(NotepadPath, TitleNotes, PosSmall, "minimized", 0, NoSnap)}

\* the layouts of at most most entries
Layouts(most) == UNION {[1..n -> Entries] : n \in 0..most}

Window(h, title, proc, show, pos) ==
    [hwnd |-> h, visible |-> TRUE, title |-> title, proc |-> proc,
     show |-> show, pos |-> pos]

\* desktops a behaviour starts from
InitialDesktops ==
    {<<>>,
     <<Window(1, TitlePricing, ChromeProcUpper, "normal", PosBig)>>,
     <<Window(1, TitleGitHub, ChromeProc, "maximized", PosSmall),
       Window(2, TitleNotes, NotepadProc, "minimized", PosSmall)>>,
     <<Window(1, TitleGitHub, ChromeProc, "minimized", PosSmall)>>}

Init ==
    /\ SnapIdle
    /\ MatchIdle
    /\ CapIdle
    /\ PresetIdle
    /\ StoreIdle
    /\ windows \in Layouts(MaxRecords)
    /\ invocations = 1
    /\ live \in InitialDesktops
    /\ running = {}
    /\ pc = "idle"
    /\ idx = 0
    /\ polls = 0
    /\ success_count = 0
    /\ launched_session_apps = {}
    /\ result = NoResult
    /\ runs = 0
    /\ attempts = <<>>
    /\ outcome = <<>>
    /\ oslog = <<>>
    /\ session_launches = <<>>
    /\ session_toggle = RESTORE_SESSION_MANAGED_APPS
    /\ monitors = Monitors
    /\ osfault = NoFault

\* main.handle_restore_preset -> restore_windows, window_restore.py:472-475
StartRun ==
    /\ pc \in {"idle", "done"}
    /\ runs < invocations
    /\ runs' = runs + 1
    /\ success_count' = 0
    /\ launched_session_apps' = new_launched_set(launched_session_apps)
    /\ idx' = 1
    /\ pc' = "next"
    /\ result' = NoResult
    /\ polls' = 0
    /\ attempts' = <<>>
    /\ outcome' = <<>>
    /\ oslog' = <<>>
    /\ session_launches' = <<>>
    /\ UNCHANGED <<windows, invocations, session_toggle, monitors, osfault, live, running>>

\* the loop hands windows[idx] to restore_window (window_restore.py:477-479)
AtRecord ==
    /\ pc = "next"
    /\ idx <= Len(windows)

\* restore_window reads the entry: window_restore.py:381-390
Enter ==
    /\ attempts' = Append(attempts, idx)
    /\ polls' = 0
    /\ windows' = record_reads(windows, idx)

\* restore_window returned b (window_restore.py:479-480)
Returned(b, why) ==
    /\ outcome' = Append(outcome, IF b THEN "ok" ELSE why)
    /\ success_count' = IF b THEN success_count + 1 ELSE success_count
    /\ idx' = idx + 1
    /\ pc' = "next"

\* restore_window raised: window_restore.py:381 on an entry that is no dict,
\* caught at 481-482
RaiseOnEntry ==
    /\ AtRecord
    /\ ~windows[idx].dict
    /\ Enter
    /\ outcome' = Append(outcome, "raised")
    /\ idx' = after_exception(idx, Len(windows))
    /\ oslog' = <<>>
    /\ UNCHANGED <<invocations, session_toggle, monitors, osfault, live, running, pc, success_count, launched_session_apps,
                   result, runs, session_launches>>

\* window_restore.py:394-397
SkipMinimized ==
    /\ AtRecord
    /\ windows[idx].dict
    /\ skip_minimized(windows[idx])
    /\ Enter
    /\ Returned(TRUE, "")
    /\ oslog' = <<>>
    /\ UNCHANGED <<invocations, session_toggle, monitors, osfault, live, running, launched_session_apps, result, runs,
                   session_launches>>

\* a record restore_window goes on with after line 397
Active(r) == r.dict /\ ~skip_minimized(r)

SessionRecord(r) ==
    /\ Active(r)
    /\ is_session_managed(r)
    /\ ~policy_skips(is_session_managed(r), session_toggle)

OtherRecord(r) == Active(r) /\ ~is_session_managed(r)

\* window_restore.py:405-407: session-managed records are not restored
SkipByPolicy ==
    /\ AtRecord
    /\ Active(windows[idx])
    /\ policy_skips(is_session_managed(windows[idx]), session_toggle)
    /\ Enter
    /\ Returned(TRUE, "")
    /\ oslog' = <<>>
    /\ UNCHANGED <<invocations, session_toggle, monitors, osfault, live, running, launched_session_apps,
                   result, runs, session_launches>>

\* window_restore.py:410-420: a live window is found and surfaced
SurfaceSession ==
    /\ AtRecord
    /\ SessionRecord(windows[idx])
    /\ LET r == windows[idx]
           h == find_best(live, r.executable, r.title)
       IN /\ h # None
          /\ live' = surface_window(live, h).desk
          /\ oslog' = <<LogSearch(h)>> \o surface_window(live, h).log
    /\ Enter
    /\ Returned(TRUE, "")
    /\ UNCHANGED <<invocations, session_toggle, monitors, osfault, running, launched_session_apps, result, runs,
                   session_launches>>

\* window_restore.py:421-422: no live window, executable launched before
SessionAlreadyLaunched ==
    /\ AtRecord
    /\ SessionRecord(windows[idx])
    /\ LET r == windows[idx]
       IN /\ find_best(live, r.executable, r.title) = None
          /\ already_launched(r.executable, launched_session_apps)
    /\ oslog' = <<LogSearch(None)>>
    /\ Enter
    /\ Returned(TRUE, "")
    /\ UNCHANGED <<invocations, session_toggle, monitors, osfault, live, running, launched_session_apps, result, runs,
                   session_launches>>

\* window_restore.py:423-428: no live window, executable launched now.
\* started is whether subprocess.Popen started a process.
LaunchSession(started) ==
    /\ AtRecord
    /\ SessionRecord(windows[idx])
    /\ LET r == windows[idx]
       IN /\ find_best(live, r.executable, r.title) = None
          /\ ~already_launched(r.executable, launched_session_apps)
          /\ oslog' = <<LogSearch(None), LogLaunch(r.executable, started)>>
          /\ IF started
             THEN /\ launched_session_apps' = launched_session_apps \cup {r.executable}
                  /\ session_launches' = Append(session_launches, r.executable)
                  /\ running' = running \cup {r.executable}
             ELSE UNCHANGED <<launched_session_apps, session_launches, running>>
    /\ Enter
    /\ Returned(started, "launch_failed")
    /\ UNCHANGED <<invocations, session_toggle, monitors, osfault, live, result, runs>>

\* window_restore.py:430-431, 451-459: a live window is found and placed
PlaceFound ==
    /\ AtRecord
    /\ OtherRecord(windows[idx])
    /\ LET r == windows[idx]
           h == find_best(live, r.executable, r.title)
       IN /\ ~no_window(h)
          /\ live' = place_window(live, h, r).desk
          /\ oslog' = <<LogSearch(h)>> \o place_window(live, h, r).log
    /\ Enter
    /\ Returned(TRUE, "")
    /\ UNCHANGED <<invocations, session_toggle, monitors, osfault, running, launched_session_apps, result, runs,
                   session_launches>>

\* window_restore.py:433-438: no live window, the program is launched
LaunchProgram(started) ==
    /\ AtRecord
    /\ OtherRecord(windows[idx])
    /\ LET r == windows[idx]
           h == find_best(live, r.executable, r.title)
       IN /\ no_window(h)
          /\ oslog' = <<LogSearch(h), LogLaunch(r.executable, started)>>
          /\ running' = IF started THEN running \cup {r.executable} ELSE running
    /\ Enter
    /\ IF started
       THEN /\ pc' = "poll"
            /\ UNCHANGED <<outcome, success_count, idx>>
       ELSE Returned(FALSE, "launch_failed")
    /\ UNCHANGED <<invocations, session_toggle, monitors, osfault, live, launched_session_apps, result, runs, session_launches>>

\* window_restore.py:441-459: one iteration of the polling loop; the window
\* found is placed, the last empty-handed iteration fails the record
Poll ==
    /\ pc = "poll"
    /\ ~poll_exhausted(polls)
    /\ polls' = polls + 1
    /\ LET r == windows[idx]
           h == find_best(live, r.executable, r.title)
       IN IF h # None
          THEN /\ live' = place_window(live, h, r).desk
               /\ oslog' = oslog \o <<LogSearch(h)>> \o place_window(live, h, r).log
               /\ Returned(TRUE, "")
          ELSE /\ oslog' = Append(oslog, LogSearch(None))
               /\ UNCHANGED live
               /\ IF poll_exhausted(polls + 1)
                  THEN Returned(FALSE, "not_found")
                  ELSE UNCHANGED <<outcome, success_count, idx, pc>>
    /\ UNCHANGED <<windows, invocations, session_toggle, monitors, osfault, running, launched_session_apps, result, runs, attempts,
                   session_launches>>

\* window_restore.py:484-486
Finish ==
    /\ pc = "next"
    /\ idx > Len(windows)
    /\ result' = return_value(success_count, Len(windows))
    /\ pc' = "done"
    /\ UNCHANGED <<windows, invocations, session_toggle, monitors, osfault, live, running, idx, polls, success_count,
                   launched_session_apps, runs, attempts, outcome, oslog,
                   session_launches>>

\* the desktop: a launched process shows its first window
WindowAppears ==
    /\ pc \in {"next", "poll"}
    /\ Len(live) < MaxWindows
    /\ \E e \in running :
          /\ live' = <<Window(Len(live) + 1, TitleInbox, LastPathPart(e), "normal", PosSmall)>>
                        \o live
          /\ running' = running \ {e}
    /\ UNCHANGED <<windows, invocations, session_toggle, monitors, osfault, pc, idx, polls, success_count, launched_session_apps,
                   result, runs, attempts, outcome, oslog, session_launches>>

Next ==
    \/ StartRun /\ UNCHANGED <<storeVars, snapVars, matchVars, capVars, presetVars>>
    \/ RaiseOnEntry /\ UNCHANGED <<storeVars, snapVars, matchVars, capVars, presetVars>>
    \/ SkipMinimized /\ UNCHANGED <<storeVars, snapVars, matchVars, capVars, presetVars>>
    \/ SurfaceSession /\ UNCHANGED <<storeVars, snapVars, matchVars, capVars, presetVars>>
    \/ SessionAlreadyLaunched /\ UNCHANGED <<storeVars, snapVars, matchVars, capVars, presetVars>>
    \/ (\E started \in BOOLEAN : LaunchSession(started)) /\ UNCHANGED <<storeVars, snapVars, matchVars, capVars, presetVars>>
    \/ PlaceFound /\ UNCHANGED <<storeVars, snapVars, matchVars, capVars, presetVars>>
    \/ (\E started \in BOOLEAN : LaunchProgram(started)) /\ UNCHANGED <<storeVars, snapVars, matchVars, capVars, presetVars>>
    \/ Poll /\ UNCHANGED <<storeVars, snapVars, matchVars, capVars, presetVars>>
    \/ Finish /\ UNCHANGED <<storeVars, snapVars, matchVars, capVars, presetVars>>
    \/ WindowAppears /\ UNCHANGED <<storeVars, snapVars, matchVars, capVars, presetVars>>

Spec == Init /\ [][Next]_vars

-----------------------------------------------------------------------------
(* ToggleSpec: a run with RESTORE_SESSION_MANAGED_APPS on or off *)

ToggleDesktops ==
    {<<>>,
     <<Window(1, TitleGitHub, ChromeProc, "maximized", PosSmall),
       Window(2, TitleNotes, NotepadProc, "minimized", PosSmall)>>}

ToggleInit ==
    /\ SnapIdle
    /\ MatchIdle
    /\ CapIdle
    /\ PresetIdle
    /\ StoreIdle
    /\ windows \in Layouts(MaxRecords)
    /\ invocations = 1
    /\ live \in ToggleDesktops
    /\ running = {}
    /\ pc = "idle"
    /\ idx = 0
    /\ polls = 0
    /\ success_count = 0
    /\ launched_session_apps = {}
    /\ result = NoResult
    /\ runs = 0
    /\ attempts = <<>>
    /\ outcome = <<>>
    /\ oslog = <<>>
    /\ session_launches = <<>>
    /\ session_toggle \in BOOLEAN
    /\ monitors = Monitors
    /\ osfault = NoFault

ToggleNext ==
    \/ Next
    \/ SkipByPolicy /\ UNCHANGED <<storeVars, snapVars, matchVars, capVars, presetVars>>

ToggleSpec == ToggleInit /\ [][ToggleNext]_vars

-----------------------------------------------------------------------------
(* RepeatSpec: restore_windows invoked MaxRuns times on the same desktop    *)

SessionEntries ==
    {Entry(ChromePath, TitleGitHub, PosOffScreen, "normal", 1, "left"),
     Entry(ChromePathD, TitleGitHub, PosSmall, "normal", 0, NoSnap)}

SessionLayouts(most) == UNION {[1..n -> SessionEntries] : n \in 0..most}

RepeatInit ==
    /\ SnapIdle
    /\ MatchIdle
    /\ CapIdle
    /\ PresetIdle
    /\ StoreIdle
    /\ windows \in SessionLayouts(MaxRecords)
    /\ invocations = MaxRuns
    /\ live \in {<<>>, <<Window(1, TitleNotes, NotepadProc, "normal", PosSmall)>>}
    /\ running = {}
    /\ pc = "idle"
    /\ idx = 0
    /\ polls = 0
    /\ success_count = 0
    /\ launched_session_apps = {}
    /\ result = NoResult
    /\ runs = 0
    /\ attempts = <<>>
    /\ outcome = <<>>
    /\ oslog = <<>>
    /\ session_launches = <<>>
    /\ session_toggle = RESTORE_SESSION_MANAGED_APPS
    /\ monitors = Monitors
    /\ osfault = NoFault

RepeatNext ==
    \/ StartRun /\ UNCHANGED <<storeVars, snapVars, matchVars, capVars, presetVars>>
    \/ SurfaceSession /\ UNCHANGED <<storeVars, snapVars, matchVars, capVars, presetVars>>
    \/ SessionAlreadyLaunched /\ UNCHANGED <<storeVars, snapVars, matchVars, capVars, presetVars>>
    \/ (\E started \in BOOLEAN : LaunchSession(started)) /\ UNCHANGED <<storeVars, snapVars, matchVars, capVars, presetVars>>
    \/ Finish /\ UNCHANGED <<storeVars, snapVars, matchVars, capVars, presetVars>>
    \/ WindowAppears /\ UNCHANGED <<storeVars, snapVars, matchVars, capVars, presetVars>>

RepeatSpec == RepeatInit /\ [][RepeatNext]_vars

-----------------------------------------------------------------------------
(* Properties of a restore_windows run *)

\* restore_window has just returned (or raised) for the last attempted entry
Resting == pc \in {"next", "done"} /\ attempts # <<>>

LastRec == windows[attempts[Len(attempts)]]

LastOutcome == outcome[Len(outcome)]

OkCount == Cardinality({k \in 1..Len(outcome) : outcome[k] = "ok"})

WindowCalls == {"ShowWindow", "SetWindowPos", "SetForegroundWindow"}

\* the calls of the record in hand that act on a window
WindowCallLog ==
    LET onWindow(c) == c.op \in WindowCalls
    IN SelectSeq(oslog, onWindow)

\* searches of the live window set made after the launch
PollLog ==
    LET isSearch(c) == c.op = "EnumWindows"
    IN IF Len(oslog) <= 2 THEN <<>> ELSE SelectSeq(SubSeq(oslog, 3, Len(oslog)), isSearch)

\* C1: every entry of the layout is attempted, in list order, exactly once;
\* an entry that fails or raises never keeps a later one from being attempted.
C1_AllAttempted ==
    /\ attempts = [i \in 1..Len(attempts) |-> i]
    /\ Len(outcome) = Len(attempts) - (IF pc = "poll" THEN 1 ELSE 0)
    /\ pc = "next" => Len(attempts) = idx - 1
    /\ pc = "done" => Len(attempts) = Len(windows)

\* C1 witness: three entries; the first raises, the second is not found after
\* polling, the third is still attempted and handled
C1_Witness ==
    /\ pc = "done"
    /\ outcome = <<"raised", "not_found", "ok">>
    /\ attempts = <<1, 2, 3>>

C3_PollBound ==
    /\ polls <= PollAttempts
    /\ Len(PollLog) = polls
    /\ pc = "poll" => polls < PollAttempts
    /\ (Resting /\ LastOutcome = "not_found") =>
          /\ polls = PollAttempts
          /\ Len(PollLog) = PollAttempts
          /\ \A i \in 1..Len(PollLog) : PollLog[i].hwnd = None
          /\ oslog[2] = LogLaunch(LastRec.executable, TRUE)

\* C3 witness: a launched program never showed a window; failed after 10 polls
C3_Witness ==
    /\ Resting
    /\ LastOutcome = "not_found"
    /\ polls = PollAttempts
    /\ ~is_session_managed(LastRec)

\* C4: handing a record with state minimized to restore_window reports
\* success and does nothing: no search, no launch, no window call, the live
\* window set is left as it was - session-managed executable or not.
C4_MinimizedNoop ==
    [][(/\ pc = "next"
        /\ idx <= Len(windows)
        /\ attempts' = Append(attempts, idx)
        /\ windows[idx].dict
        /\ windows[idx].state = "minimized")
          => /\ outcome' = Append(outcome, "ok")
             /\ success_count' = success_count + 1
             /\ oslog' = <<>>
             /\ live' = live
             /\ running' = running
             /\ launched_session_apps' = launched_session_apps
             /\ pc' = "next"]_vars

\* C4 witness: a minimized record of a session-managed executable was
\* reported handled while a minimized window of that executable is live
C4_Witness ==
    /\ Resting
    /\ LastRec.state = "minimized"
    /\ is_session_managed(LastRec)
    /\ LastOutcome = "ok"
    /\ \E i \in 1..Len(live) : live[i].show = "minimized" /\ live[i].proc = ChromeProc

\* C5 as stated: restoring a record of a session-managed executable whose
\* live window is found leaves the rectangle of that window as it was,
\* whatever the state (normal, maximized, minimized) of the live window.
C5_RectangleUntouched ==
    (/\ Resting
     /\ LastRec.dict
     /\ is_session_managed(LastRec)
     /\ WindowCallLog # <<>>)
        => WindowCallLog[1].before = WindowCallLog[Len(WindowCallLog)].after

Range(f) == {f[i] : i \in DOMAIN f}

\* C6: in one run a session-managed executable path is launched at most once;
\* a later record of that path that finds no live window is reported handled
\* with nothing but the search done; the already-launched set holds exactly
\* the paths launched in this run, so it is empty when a run starts.
C6_LaunchOnce ==
    /\ \A i, j \in 1..Len(session_launches) :
          session_launches[i] = session_launches[j] => i = j
    /\ launched_session_apps = Range(session_launches)
    /\ (pc = "next" /\ attempts = <<>>) => launched_session_apps = {}
    /\ (/\ Resting
        /\ is_session_managed(LastRec)
        /\ oslog = <<LogSearch(None)>>)
          => /\ LastOutcome = "ok"
             /\ LastRec.executable \in launched_session_apps
    /\ (/\ Resting
        /\ is_session_managed(LastRec)
        /\ Len(oslog) = 2
        /\ oslog[2] = LogLaunch(LastRec.executable, TRUE))
          => /\ LastOutcome = "ok"
             /\ session_launches[Len(session_launches)] = LastRec.executable

\* C6 witness: in the second run the executable launched in the first run is
\* launched again, and a later record of it is handled without a launch
C6_Witness ==
    /\ runs = 2
    /\ Resting
    /\ Len(attempts) >= 2
    /\ session_launches = <<ChromePath>>
    /\ oslog = <<LogSearch(None)>>
    /\ LastRec.executable = ChromePath
    /\ LastOutcome = "ok"

-----------------------------------------------------------------------------
(* The zone rectangles as a tiling of the work area *)

\* (x, y, w, h) lies within the work area and has no negative side
InsideWork(p, work) ==
    /\ p[3] >= 0
    /\ p[4] >= 0
    /\ work[1] <= p[1]
    /\ work[2] <= p[2]
    /\ p[1] + p[3] <= work[3]
    /\ p[2] + p[4] <= work[4]

\* the interiors of (x, y, w, h) rectangles p and q meet
Overlap(p, q) ==
    /\ Max(p[1], q[1]) < Min(p[1] + p[3], q[1] + q[3])
    /\ Max(p[2], q[2]) < Min(p[2] + p[4], q[2] + q[4])

RECURSIVE AreaSum(_, _)
AreaSum(L, zs) ==
    IF zs = {} THEN 0
    ELSE LET z == CHOOSE y \in zs : TRUE
         IN L[z][3] * L[z][4] + AreaSum(L, zs \ {z})

\* the rectangles of the zones zs lie in the work area, no two of them
\* overlap, and their areas add up to the area of the work area
Tiles(L, zs, work) ==
    /\ \A z \in zs : InsideWork(L[z], work)
    /\ \A y, z \in zs : y # z => ~Overlap(L[y], L[z])
    /\ AreaSum(L, zs) = (work[3] - work[1]) * (work[4] - work[2])

\* C11: for every work area the rectangles of left and right tile it exactly,
\* so do those of top and bottom, and so do the four corner rectangles: no
\* gap, no overlap, no rectangle of negative width or height; the rectangle
\* handed to SetWindowPos is the one of that table.
C11_Tiling ==
    LET L == snap_layouts(sWork)
    IN /\ sPc # "idle" => sRect = L[sZone]
       /\ Tiles(L, {"left", "right"}, sWork)
       /\ Tiles(L, {"top", "bottom"}, sWork)
       /\ Tiles(L, {"top_left", "top_right", "bottom_left", "bottom_right"}, sWork)

\* C11 witness: a work area of odd width 33; the bottom right corner gets
\* the remainder column
C11_Witness ==
    /\ sPc = "placed"
    /\ WorkW = 33
    /\ WorkH = 1080
    /\ sZone = "bottom_right"
    /\ sRect = <<sWork[1] + 16, sWork[2] + 540, 17, 540>>

-----------------------------------------------------------------------------
(* ClassifySpec: detect_snap_type on a window of any geometry *)

\* how far beyond the tolerance the edges and sizes of the rectangles go
EdgeSlack == 1

\* least width and height of a work area in which no two patterns hold
\* together: 6 * tol + 1
MinExclusiveDim == 6 * tol + 1

EdgeOffsets == {-(tol + EdgeSlack), -tol, 0, tol, tol + EdgeSlack}

\* work areas on either side of the threshold, and full-size ones
ClassifyWorkAreas ==
    {<<0, 0, w, h>> : w, h \in {MinExclusiveDim - 1, MinExclusiveDim}}
    \cup {<<0, 0, 1920, 1080>>, <<-1921, 40, -1, 1081>>}

\* where a window may start along an axis of origin o and length n
AxisStarts(o, n) ==
    {o + e : e \in EdgeOffsets} \cup {o + (n \div 2) + e : e \in EdgeOffsets}

\* how long a window may be along an axis of length n
AxisLens(n) ==
    {l \in {(n \div 2) + e : e \in EdgeOffsets}
             \cup {(n - (n \div 2)) + e : e \in EdgeOffsets}
             \cup {n + e : e \in EdgeOffsets} : l > 0}

\* the rectangles of section 7 of the specification, for work area (0,0,1920,1080)
ExampleRects ==
    {<<0, 0, 960, 1080>>, <<960, 0, 960, 1080>>, <<0, 0, 960, 540>>, <<0, 0, 700, 1080>>}

\* (x, y, w, h) of the windows classified in a work area
ClassifyRects(work) ==
    {<<x, y, w, h>> : x \in AxisStarts(work[1], work[3] - work[1]),
                      y \in AxisStarts(work[2], work[4] - work[2]),
                      w \in AxisLens(work[3] - work[1]),
                      h \in AxisLens(work[4] - work[2])}
    \cup ExampleRects

ClassifyInit ==
    /\ MatchIdle
    /\ RunIdle
    /\ CapIdle
    /\ PresetIdle
    /\ StoreIdle
    /\ sWork \in ClassifyWorkAreas
    /\ sRect \in ClassifyRects(sWork)
    /\ sZone = NoSnap
    /\ sClass = NoSnap
    /\ sPc = "idle"

\* get_window_info, window_capture.py:232, on a window whose state is normal
Classify ==
    /\ sPc = "idle"
    /\ sClass' = detect_snap_type(RectOfPos(sRect), sWork, "normal")
    /\ sPc' = "classified"
    /\ UNCHANGED <<sWork, sZone, sRect>>

ClassifyNext == Classify /\ UNCHANGED <<storeVars, matchVars, runVars, capVars, presetVars>>

ClassifySpec == ClassifyInit /\ [][ClassifyNext]_vars

\* positions in the precedence list of the patterns that hold for the window
HoldingPatterns ==
    {i \in 1..Len(SnapZones) :
        snap_pattern(SnapZones[i], snap_flags(RectOfPos(sRect), sWork))}

\* C12 as stated: for every rectangle and every work area at most one of
\* the eight flag conjunctions holds.
C12_Exclusive == sPc = "classified" => Cardinality(HoldingPatterns) <= 1

\* C12 amended: in a work area at least 6*tol + 1 = 145 pixels wide and high,
\* at most one of the eight flag conjunctions holds for any rectangle, so
\* the order of the tests does not matter there; in a narrower or lower work
\* area several can hold and the order of the tests decides.
C12_ExclusiveFrom145 ==
    (sPc = "classified" /\ WorkW >= MinExclusiveDim /\ WorkH >= MinExclusiveDim)
        => Cardinality(HoldingPatterns) <= 1

\* C12 witness: at the threshold, a window within tolerance of the left half
C12_Witness ==
    /\ sPc = "classified"
    /\ WorkW = MinExclusiveDim
    /\ WorkH = MinExclusiveDim
    /\ sRect = <<tol, -tol, (MinExclusiveDim \div 2) + tol, MinExclusiveDim + tol>>
    /\ HoldingPatterns = {1}
    /\ sClass = "left"

\* C13: with tolerance 24, detect_snap_type returns the first pattern of the
\* precedence list whose flags all hold for the rectangle and the work area,
\* and none when no pattern holds; in work area (0,0,1920,1080) that is left
\* for (0,0,960,1080), right for (960,0,960,1080), top_left for (0,0,960,540)
\* and none for a rectangle 700 wide.
C13_FirstPattern ==
    sPc = "classified" =>
        /\ tol = 24
        /\ sClass = NoSnap <=> HoldingPatterns = {}
        /\ sClass # NoSnap =>
              \E i \in HoldingPatterns :
                  /\ sClass = SnapZones[i]
                  /\ \A j \in HoldingPatterns : i <= j
        /\ sWork = <<0, 0, 1920, 1080>> =>
              /\ sRect = <<0, 0, 960, 1080>> => sClass = "left"
              /\ sRect = <<960, 0, 960, 1080>> => sClass = "right"
              /\ sRect = <<0, 0, 960, 540>> => sClass = "top_left"
              /\ sRect[3] = 700 => sClass = NoSnap

\* C13 witness: the 700 wide rectangle classified as none
C13_Witness ==
    /\ sPc = "classified"
    /\ sWork = <<0, 0, 1920, 1080>>
    /\ sRect = <<0, 0, 700, 1080>>
    /\ sClass = NoSnap

-----------------------------------------------------------------------------
(* CaptureSpec: window_capture.capture_windows over a live desktop *)

\* window_capture.py:21-27
EXCLUDED_TITLES ==
    {<<"P","r","o","g","r","a","m"," ","M","a","n","a","g","e","r">>,
     <<"W","i","n","d","o","w","s"," ","I","n","p","u","t"," ","E","x","p","e","r","i","e","n","c","e">>,
     <<"M","i","c","r","o","s","o","f","t"," ","T","e","x","t"," ","I","n","p","u","t"," ","A","p","p","l","i","c","a","t","i","o","n">>,
     <<"W","i","n","d","o","w","s"," ","D","e","f","e","n","d","e","r">>,
     <<"S","e","c","u","r","i","t","y"," ","H","e","a","l","t","h">>}

\* window_capture.py:30-37
EXCLUDED_PROCESSES ==
    {<<"e","x","p","l","o","r","e","r",".","e","x","e">>,
     <<"s","y","s","t","e","m","s","e","t","t","i","n","g","s",".","e","x","e">>,
     <<"s","e","a","r","c","h","h","o","s","t",".","e","x","e">>,
     <<"s","t","a","r","t","m","e","n","u","e","x","p","e","r","i","e","n","c","e","h","o","s","t",".","e","x","e">>,
     <<"t","e","x","t","i","n","p","u","t","h","o","s","t",".","e","x","e">>,
     <<"a","p","p","l","i","c","a","t","i","o","n","f","r","a","m","e","h","o","s","t",".","e","x","e">>}

\* window_capture.py:39-42
EXCLUDED_TITLE_PARTS ==
    {<<"S","a","v","e"," ","W","i","n","d","o","w"," ","L","a","y","o","u","t">>,
     <<"W","i","n","d","o","w"," ","R","e","s","t","o","r","e"," ","-"," ","M","a","n","a","g","e"," ","P","r","e","s","e","t","s">>}

PythonProcs == {<<"p","y","t","h","o","n",".","e","x","e">>, <<"p","y","t","h","o","n","w",".","e","x","e">>}

ExplorerPath == <<"C",":","\\","W","\\","E","x","p","l","o","r","e","r",".","E","X","E">>

PythonPath == <<"C",":","\\","P","\\","p","y","t","h","o","n",".","e","x","e">>

TitleProgman == <<"P","r","o","g","r","a","m"," ","M","a","n","a","g","e","r">>

TitleSaveDialog == <<"s","a","v","e"," ","w","i","n","d","o","w"," ","l","a","y","o","u","t">>

\* get_window_info returned None
NoRecord == [dict |-> FALSE]

\* A top-level window as capture reads it:
\*   visible  IsWindowVisible
\*   title    GetWindowText
\*   exe      process.exe(), the image path; process.name() is its last part
\*   rect     GetWindowRect: (left, top, right, bottom)
\*   show     showCmd of GetWindowPlacement
\*   style    "app" | "tool" (WS_EX_TOOLWINDOW) | "bare" (no WS_CAPTION)
\*   fault    "none" | "rect" (GetWindowRect raises) | "denied" (psutil raises
\*            AccessDenied or NoSuchProcess) | "raise" (process.exe() raises
\*            another exception)
CapWindow(visible, title, exe, rect, show, style, fault) ==
    [visible |-> visible, title |-> title, exe |-> exe, rect |-> rect,
     show |-> show, style |-> style, fault |-> fault]

\* window_capture.py:47-54; None when the process cannot be read
get_process_name(w) ==
    IF w.fault = "denied" THEN NoProc ELSE Lower(LastPathPart(w.exe))

\* the title test of line 87 without the two lower() calls
is_visible_window_cased(w) ==
    /\ w.visible
    /\ w.title # <<>>
    /\ \A excluded \in EXCLUDED_TITLES : ~Contains(excluded, w.title)
    /\ ~(get_process_name(w) # NoProc /\ get_process_name(w) \in EXCLUDED_PROCESSES)
    /\ w.style = "app"

\* window_capture.py:75-107
is_visible_window(w) ==
    /\ w.visible
    /\ w.title # <<>>
    /\ \A excluded \in EXCLUDED_TITLES : ~Contains(Lower(excluded), Lower(w.title))
    /\ ~(get_process_name(w) # NoProc /\ get_process_name(w) \in EXCLUDED_PROCESSES)
    /\ w.style = "app"

\* window_capture.py:203-210
is_own_utility_window(executable, title) ==
    /\ exe_name(executable) \in PythonProcs
    /\ \E t \in EXCLUDED_TITLE_PARTS : Contains(Lower(t), Lower(title))

\* GetMonitorInfo(hMonitor)['Monitor'] of the monitors, in enumeration order
MonitorRects == <<<<0, 0, 1920, 1080>>>>

\* the test of window_capture.py:150 with the far edges left out
holds_point_open(rect, cx, cy) ==
    /\ rect[1] < cx /\ cx < rect[3]
    /\ rect[2] < cy /\ cy < rect[4]

\* window_capture.py:150
holds_point(rect, cx, cy) ==
    /\ rect[1] <= cx /\ cx <= rect[3]
    /\ rect[2] <= cy /\ cy <= rect[4]

\* window_capture.py:135-155: index of the first monitor that holds the centre
\* of the window, 0 when none does; cMonitors.raises is EnumDisplayMonitors
\* raising, info = FALSE is GetMonitorInfo raising for that monitor, which
\* ends the loop in the except of line 154
get_monitor_info(w) ==
    LET cx == (w.rect[1] + w.rect[3]) \div 2
        cy == (w.rect[2] + w.rect[4]) \div 2
        mons == cMonitors.list
        stops == {i \in 1..Len(mons) : ~mons[i].info \/ holds_point(mons[i].rect, cx, cy)}
        first == CHOOSE i \in stops : \A j \in stops : i <= j
    IN IF cMonitors.raises \/ stops = {} THEN 0
       ELSE IF ~mons[first].info THEN 0
       ELSE first - 1

\* an exception in get_window_info left to propagate
on_read_error_raise == "raise"

\* window_capture.py:258-260: the exception is logged and None is returned
on_read_error == "none"

\* window_capture.py:57-64; None (here the empty path) when psutil raises
\* AccessDenied or NoSuchProcess
get_process_path(w) ==
    IF w.fault = "denied" THEN <<>> ELSE w.exe

\* a window without a path is kept
path_missing_kept(executable) == FALSE

\* window_capture.py:224: `if not executable`
path_missing(executable) == executable = <<>>

\* window_capture.py:213-260 with include_tabs left aside.
\* kind: "record" | "none" (None returned) | "raise" (an exception leaves it)
get_window_info(w, include_minimized) ==
    IF ~is_visible_window(w) THEN [kind |-> "none", info |-> NoRecord]
    ELSE IF w.fault = "rect" THEN [kind |-> "none", info |-> NoRecord]
    ELSE IF w.fault = "raise" THEN [kind |-> on_read_error, info |-> NoRecord]
    ELSE IF path_missing(get_process_path(w)) THEN [kind |-> "none", info |-> NoRecord]
    ELSE IF w.show = "minimized" /\ ~include_minimized
         THEN [kind |-> "none", info |-> NoRecord]
    ELSE IF is_own_utility_window(w.exe, w.title) THEN [kind |-> "none", info |-> NoRecord]
    ELSE [kind |-> "record",
          info |-> Entry(get_process_path(w), w.title,
                         <<w.rect[1], w.rect[2], w.rect[3] - w.rect[1], w.rect[4] - w.rect[2]>>,
                         w.show, get_monitor_info(w),
                         detect_snap_type(w.rect, DesktopWork, w.show))]

\* most top-level windows on the desktop captured
MaxCapWindows == 3

\* the left half of DesktopWork, as GetWindowRect gives it
RectLeftHalf == <<0, 0, 960, 1040>>

RectFree == <<100, 100, 500, 400>>

\* the kinds of window a captured desktop is made of
CapWindows ==
    {CapWindow(TRUE, TitleNotes, NotepadPath, RectLeftHalf, "normal", "app", "none"),
     CapWindow(TRUE, TitleInbox, NotepadPath, RectFree, "normal", "app", "none"),
     CapWindow(TRUE, TitleNotes, NotepadPath, RectLeftHalf, "maximized", "app", "none"),
     CapWindow(TRUE, TitleGitHub, ChromePath, RectLeftHalf, "minimized", "app", "none"),
     CapWindow(TRUE, TitleNotes, NotepadPath, RectFree, "normal", "app", "rect"),
     CapWindow(TRUE, TitleNotes, NotepadPath, RectFree, "normal", "app", "denied"),
     CapWindow(TRUE, TitleNotes, NotepadPath, RectLeftHalf, "normal", "app", "raise"),
     CapWindow(FALSE, TitleNotes, NotepadPath, RectFree, "normal", "app", "none"),
     CapWindow(TRUE, NoTitle, NotepadPath, RectFree, "normal", "app", "none"),
     CapWindow(TRUE, TitleNotes, NotepadPath, RectFree, "normal", "tool", "none"),
     CapWindow(TRUE, TitleNotes, ExplorerPath, RectFree, "normal", "app", "none"),
     CapWindow(TRUE, TitleProgman, NotepadPath, RectFree, "normal", "app", "none"),
     CapWindow(TRUE, TitleSaveDialog, PythonPath, RectFree, "normal", "app", "none")}

\* the desktops of at most most windows
CapDesktops(most) == UNION {[1..n -> CapWindows] : n \in 0..most}

CaptureInit ==
    /\ SnapIdle
    /\ MatchIdle
    /\ RunIdle
    /\ PresetIdle
    /\ StoreIdle
    /\ cLive \in CapDesktops(MaxCapWindows)
    /\ cInclMin \in BOOLEAN
    /\ cPos = 0
    /\ cStop = 0
    /\ cMonitors = [raises |-> FALSE,
                    list |-> [i \in 1..Len(MonitorRects) |->
                                [rect |-> MonitorRects[i], info |-> TRUE]]]
    /\ cRecords = <<>>
    /\ cPc = "idle"

\* capture_windows is called: window_capture.py:273-274
CaptureStart ==
    /\ cPc = "idle"
    /\ cPc' = "enum"
    /\ cPos' = 0
    /\ cRecords' = <<>>
    /\ UNCHANGED <<cLive, cInclMin, cStop, cMonitors>>

\* EnumWindows hands the next window to the callback: window_capture.py:277-281.
\* An exception that leaves the callback ends the enumeration and is caught
\* at line 290.
CaptureVisit ==
    /\ cPc = "enum"
    /\ cPos < Len(cLive)
    /\ LET got == get_window_info(cLive[cPos + 1], cInclMin)
       IN /\ cRecords' = IF got.kind = "record" THEN Append(cRecords, got.info) ELSE cRecords
          /\ cPc' = IF got.kind = "raise" THEN "returned" ELSE "enum"
    /\ cPos' = cPos + 1
    /\ UNCHANGED <<cLive, cInclMin, cStop, cMonitors>>

\* EnumWindows itself raises: window_capture.py:283, caught at 290-291
CaptureEnumFails ==
    /\ cPc = "enum"
    /\ cStop' = cPos + 1
    /\ cPc' = "returned"
    /\ UNCHANGED <<cLive, cInclMin, cPos, cMonitors, cRecords>>

\* the enumeration is over: window_capture.py:284-293
CaptureReturn ==
    /\ cPc = "enum"
    /\ cPos = Len(cLive)
    /\ cPc' = "returned"
    /\ UNCHANGED <<cLive, cInclMin, cPos, cStop, cMonitors, cRecords>>

CaptureNext ==
    \/ CaptureStart /\ UNCHANGED <<storeVars, snapVars, matchVars, runVars, presetVars>>
    \/ CaptureVisit /\ UNCHANGED <<storeVars, snapVars, matchVars, runVars, presetVars>>
    \/ CaptureEnumFails /\ UNCHANGED <<storeVars, snapVars, matchVars, runVars, presetVars>>
    \/ CaptureReturn /\ UNCHANGED <<storeVars, snapVars, matchVars, runVars, presetVars>>

CaptureSpec == CaptureInit /\ [][CaptureNext]_vars

\* C14: in every record capture produces, snap_type is present only if the
\* state is normal: no record with state minimized or maximized carries a
\* snap_type, whatever include_minimized is and whatever the rectangle is.
C14_SnapOnlyNormal ==
    \A i \in 1..Len(cRecords) :
        cRecords[i].snap_type # NoSnap => cRecords[i].state = "normal"

\* C14 witness: with include_minimized, a minimized and a maximized window
\* that fill the left half are captured without snap_type, a normal one
\* that fills it is captured as left
C14_Witness ==
    /\ cPc = "returned"
    /\ cInclMin
    /\ Len(cRecords) = 3
    /\ cRecords[1].state = "minimized" /\ cRecords[1].snap_type = NoSnap
    /\ cRecords[2].state = "maximized" /\ cRecords[2].snap_type = NoSnap
    /\ cRecords[3].state = "normal" /\ cRecords[3].snap_type = "left"
    /\ \A i \in 1..3 : cRecords[i].pos = <<0, 0, 960, 1040>>

\* a window capture can read and is meant to record
Capturable(w) ==
    /\ w.fault = "none"
    /\ is_visible_window(w)
    /\ w.show = "minimized" => cInclMin
    /\ ~is_own_utility_window(w.exe, w.title)

\* the windows EnumWindows handed over before it failed, all if it did not
Enumerated == SubSeq(cLive, 1, IF cStop = 0 THEN Len(cLive) ELSE cStop - 1)

\* C15: capture_windows always returns: a window that cannot be read is
\* left out and every other eligible window enumerated has its record, in
\* enumeration order; when EnumWindows itself fails the records gathered up
\* to then are returned.
C15_NeverRaises ==
    /\ cPc \in {"idle", "enum", "returned"}
    /\ cPc = "returned" =>
          LET kept == SelectSeq(Enumerated, Capturable)
          IN /\ Len(cRecords) = Len(kept)
             /\ \A i \in 1..Len(kept) :
                   /\ cRecords[i].executable = kept[i].exe
                   /\ cRecords[i].title = kept[i].title
                   /\ cRecords[i].state = kept[i].show
                   /\ RectOfPos(cRecords[i].pos) = kept[i].rect

\* C15 witness: the second of three windows cannot be read (process.exe()
\* raises); the first and the third are returned
C15_Witness ==
    /\ cPc = "returned"
    /\ cStop = 0
    /\ Len(cLive) = 3
    /\ cLive[2].fault = "raise"
    /\ Len(cRecords) = 2
    /\ cRecords[1].title = TitleInbox
    /\ cRecords[2].title = TitleNotes

\* C16: restore_windows never changes the layout it is given: no step of a
\* run changes an entry or the order of the entries, whether entries are
\* handled, fail or raise.
C16_LayoutUntouched == [][windows' = windows]_vars

\* C16 witness: a run over three entries, one that raised, one whose launch
\* failed, one handled by placing a window in its snap zone, has returned
C16_Witness ==
    /\ pc = "done"
    /\ Len(windows) = 3
    /\ windows[3].snap_type = "top_right"
    /\ outcome = <<"raised", "launch_failed", "ok">>
    /\ \E c \in 1..Len(oslog) : oslog[c].op = "SetWindowPos"

-----------------------------------------------------------------------------
(* PresetSpec: main.handle_restore_preset over the preset store *)

NameWork == <<"W","o","r","k">>

NameWorkLower == <<"w","o","r","k">>

NameHome == <<"H","o","m","e">>

NameOther == <<"T","r","i","p">>

\* json.load gave something that is not {'presets': [...]}
Misshapen == <<"misshapen">>

\* data['presets'] of a readable presets.json; the entries of these layouts
\* are handled without touching the desktop
StoredPresets ==
    <<[name |-> NameWork,
       windows |-> <<Entry(ChromePath, TitleGitHub, PosSmall, "minimized", 0, NoSnap),
                     BadEntry,
                     Entry(NotepadPath, TitleNotes, PosSmall, "minimized", 0, NoSnap)>>],
      [name |-> NameHome,
       windows |-> <<BadEntry>>]>>

\* conditions of presets.json:
\*   "missing"    the file does not exist
\*   "ok"         it holds StoredPresets
\*   "locked"     open() raises OSError
\*   "corrupt"    json.load raises JSONDecodeError
\*   "misshapen"  it is JSON, but not an object with a 'presets' list
StoreConditions == {"missing", "ok", "locked", "corrupt", "misshapen"}

PresetInit ==
    /\ StoreIdle
    /\ SnapIdle
    /\ MatchIdle
    /\ CapIdle
    /\ windows = <<>>
    /\ invocations = 0
    /\ live \in InitialDesktops
    /\ running = {}
    /\ pc = "idle"
    /\ idx = 0
    /\ polls = 0
    /\ success_count = 0
    /\ launched_session_apps = {}
    /\ result = NoResult
    /\ runs = 0
    /\ attempts = <<>>
    /\ outcome = <<>>
    /\ oslog = <<>>
    /\ session_launches = <<>>
    /\ session_toggle = RESTORE_SESSION_MANAGED_APPS
    /\ monitors = Monitors
    /\ osfault = NoFault
    /\ pStore \in StoreConditions
    /\ pBak \in BOOLEAN
    /\ pName \in {NameWorkLower, NameHome, NameOther}
    /\ pData = <<>>
    /\ pPc = "idle"
    /\ pResult = NoResult

\* PresetManager._load_presets, preset_manager.py:32-48, as load_preset calls
\* it (line 107).  Path.rename onto an existing presets.json.bak raises
\* FileExistsError on Windows, inside the except clause of line 40.
LoadPresets ==
    /\ pPc = "idle"
    /\ CASE pStore = "missing" ->
              /\ pData' = <<>>
              /\ pPc' = "loaded"
              /\ UNCHANGED <<pStore, pBak>>
         [] pStore = "ok" ->
              /\ pData' = StoredPresets
              /\ pPc' = "loaded"
              /\ UNCHANGED <<pStore, pBak>>
         [] pStore = "locked" ->
              /\ pData' = <<>>
              /\ pPc' = "loaded"
              /\ UNCHANGED <<pStore, pBak>>
         [] pStore = "corrupt" ->
              IF pBak
              THEN /\ pPc' = "raised"
                   /\ UNCHANGED <<pStore, pBak, pData>>
              ELSE /\ pData' = <<>>
                   /\ pPc' = "loaded"
                   /\ pStore' = "missing"
                   /\ pBak' = TRUE
         [] pStore = "misshapen" ->
              /\ pData' = Misshapen
              /\ pPc' = "loaded"
              /\ UNCHANGED <<pStore, pBak>>
    /\ UNCHANGED <<pName, pResult>>

\* the presets of data whose name is name, ignoring case (preset_manager.py:110)
named(data, name) == {i \in 1..Len(data) : Lower(data[i].name) = Lower(name)}

\* PresetManager.load_preset, preset_manager.py:109-113, finds no preset;
\* handle_restore_preset returns False (main.py:151-153)
PresetNotFound ==
    /\ pPc = "loaded"
    /\ pData # Misshapen
    /\ named(pData, pName) = {}
    /\ pResult' = 0
    /\ pPc' = "returned"
    /\ UNCHANGED <<pStore, pBak, pName, pData>>
    /\ UNCHANGED runVars

\* data['presets'] raises KeyError or TypeError (preset_manager.py:109)
PresetLookupRaises ==
    /\ pPc = "loaded"
    /\ pData = Misshapen
    /\ pPc' = "raised"
    /\ UNCHANGED <<pStore, pBak, pName, pData, pResult>>
    /\ UNCHANGED runVars

\* the first preset of that name is handed to restore_windows (main.py:155)
PresetFound ==
    /\ pPc = "loaded"
    /\ pData # Misshapen
    /\ named(pData, pName) # {}
    /\ LET i == CHOOSE k \in named(pData, pName) : \A j \in named(pData, pName) : k <= j
       IN windows' = pData[i].windows
    /\ invocations' = 1
    /\ pPc' = "restoring"
    /\ UNCHANGED <<pStore, pBak, pName, pData, pResult>>
    /\ UNCHANGED <<live, running, pc, idx, polls, success_count, launched_session_apps,
                   result, runs, attempts, outcome, oslog, session_launches, session_toggle,
                   monitors, osfault>>

\* handle_restore_preset returns what restore_windows returned (main.py:157-162)
PresetReturn ==
    /\ pPc = "restoring"
    /\ pc = "done"
    /\ pResult' = result
    /\ pPc' = "returned"
    /\ UNCHANGED <<pStore, pBak, pName, pData>>
    /\ UNCHANGED runVars

PresetNext ==
    \/ LoadPresets /\ UNCHANGED <<storeVars, snapVars, matchVars, capVars, runVars>>
    \/ PresetNotFound /\ UNCHANGED <<storeVars, snapVars, matchVars, capVars>>
    \/ PresetLookupRaises /\ UNCHANGED <<storeVars, snapVars, matchVars, capVars>>
    \/ PresetFound /\ UNCHANGED <<storeVars, snapVars, matchVars, capVars>>
    \/ PresetReturn /\ UNCHANGED <<storeVars, snapVars, matchVars, capVars>>
    \/ StartRun /\ UNCHANGED <<storeVars, snapVars, matchVars, capVars, presetVars>>
    \/ RaiseOnEntry /\ UNCHANGED <<storeVars, snapVars, matchVars, capVars, presetVars>>
    \/ SkipMinimized /\ UNCHANGED <<storeVars, snapVars, matchVars, capVars, presetVars>>
    \/ Finish /\ UNCHANGED <<storeVars, snapVars, matchVars, capVars, presetVars>>

PresetSpec == PresetInit /\ [][PresetNext]_vars

\* presets.json is missing or cannot be read
Unreadable == {"missing", "locked", "corrupt"}

\* C17: with presets.json missing or unreadable, loading a name yields no
\* preset and does not raise, and the restore command then returns False
\* without a restore_windows run, a launch or a window call.
C17_NoLayoutNoFailure ==
    [][/\ (pPc = "idle" /\ pStore \in Unreadable)
            => (pPc' = "loaded" /\ pData' = <<>>)
       /\ (pPc = "loaded" /\ pData = <<>>)
            => (pPc' = "returned" /\ pResult' = 0 /\ runs' = 0 /\ oslog' = <<>>
                /\ live' = live /\ running' = running)]_vars

\* C18: with RESTORE_SESSION_MANAGED_APPS off, handing a record of a
\* session-managed executable that is not minimized to restore_window
\* reports it handled with no search, no launch and no window call, and
\* adds nothing to the already-launched set.
C18_ToggleOffNoop ==
    [][(/\ ~session_toggle
        /\ pc = "next"
        /\ idx <= Len(windows)
        /\ attempts' = Append(attempts, idx)
        /\ windows[idx].dict
        /\ windows[idx].state # "minimized"
        /\ is_session_managed(windows[idx]))
          => /\ outcome' = Append(outcome, "ok")
             /\ success_count' = success_count + 1
             /\ oslog' = <<>>
             /\ live' = live
             /\ running' = running
             /\ launched_session_apps' = launched_session_apps
             /\ session_launches' = session_launches
             /\ pc' = "next"]_vars

\* C18 witness: toggle off, a chrome record in the normal state reported
\* handled while the live chrome window is still maximized
C18_Witness ==
    /\ ~session_toggle
    /\ Resting
    /\ is_session_managed(LastRec)
    /\ LastRec.state = "normal"
    /\ LastOutcome = "ok"
    /\ oslog = <<>>
    /\ launched_session_apps = {}
    /\ \E i \in 1..Len(live) : live[i].proc = ChromeProc /\ live[i].show = "maximized"

\* the record just finished went through the generic branch (line 430 on)
OtherDone == Resting /\ LastRec.dict /\ ~is_session_managed(LastRec)
                     /\ LastRec.state # "minimized"

\* positions in oslog of the launches and of the searches
LaunchAt == {c \in 1..Len(oslog) : oslog[c].op = "launch_program"}

SearchAt == {c \in 1..Len(oslog) : oslog[c].op = "EnumWindows"}

\* C19: for a record that is not session-managed the executable is launched
\* only if the first search found no window, and at most once; a failed
\* launch fails the record with no polling; after a launch the polling
\* stops at the first search that finds a window, and that window is the
\* one placed.
C19_LaunchThenPoll ==
    (pc = "poll" \/ OtherDone) =>
        /\ Cardinality(LaunchAt) <= 1
        /\ oslog # <<>> /\ oslog[1].op = "EnumWindows"
        /\ oslog[1].hwnd # None => LaunchAt = {}
        /\ oslog[1].hwnd = None => LaunchAt = {2}
        /\ \A c \in LaunchAt :
              oslog[c].hwnd = 0 =>
                  /\ Len(oslog) = 2
                  /\ polls = 0
                  /\ pc # "poll"
                  /\ LastOutcome = "launch_failed"
        /\ \A c \in SearchAt :
              IF oslog[c].hwnd = None
              THEN \A d \in c + 1..Len(oslog) : oslog[d].op \notin WindowCalls \/ d > c + 1
              ELSE /\ \A d \in SearchAt : d <= c
                   /\ c < Len(oslog)
                   /\ \A d \in c + 1..Len(oslog) :
                         oslog[d].op \in WindowCalls /\ oslog[d].hwnd = oslog[c].hwnd
                   /\ pc # "poll"
                   /\ LastOutcome = "ok"
        /\ (\A c \in SearchAt : oslog[c].hwnd = None) => WindowCallLog = <<>>

\* C19 witness: launched, two empty polls, the third poll finds the window
\* and the window is placed
C19_Witness ==
    /\ OtherDone
    /\ LastOutcome = "ok"
    /\ LaunchAt = {2}
    /\ polls = 3
    /\ oslog[5].op = "EnumWindows"
    /\ oslog[5].hwnd # None
    /\ oslog[6].op = "ShowWindow"

-----------------------------------------------------------------------------
(* PlaceSpec: restore_windows over one record whose window is live, on any  *)
(* set of monitors and with Win32 calls that raise                          *)

\* most monitors EnumDisplayMonitors enumerates
MaxMonitors == 2

Monitor(work, info) == [work |-> work, info |-> info]

\* a second monitor to the right of the first
SecondWork == <<1920, 0, 3840, 1080>>

\* a work area smaller than the minimum window size
SmallWork == <<0, 0, 300, 200>>

\* the monitors a list is built from; GetMonitorInfo raises on the last
MonitorChoices ==
    {Monitor(DesktopWork, TRUE), Monitor(SecondWork, TRUE), Monitor(SmallWork, TRUE),
     Monitor(SecondWork, FALSE)}

MonitorLists(most) == UNION {[1..n -> MonitorChoices] : n \in 0..most}

\* smaller than the minimum size, inside the first monitor
PosTiny == <<100, 100, 50, 50>>

\* left of every work area, but within 320 of the first
PosNearLeft == <<-300, 100, 100, 100>>

\* far from every work area and larger than any
PosHuge == <<5000, 5000, 4000, 3000>>

\* on the second monitor
PosSecond == <<2000, 100, 800, 600>>

PlacePositions == {PosSmall, PosTiny, PosNearLeft, PosOffScreen, PosHuge, PosSecond}

\* saved monitor indices: negative, first, second, past the end
PlaceMonitorIndices == {-1, 0, 1, MaxMonitors}

\* the records placed: of a program that is not session-managed
PlaceEntries ==
    {Entry(NotepadPath, TitleNotes, p, st, m, NoSnap) :
        p \in PlacePositions, st \in {"normal", "maximized"}, m \in PlaceMonitorIndices}
    \cup {Entry(NotepadPath, TitleNotes, p, st, 0, z) :
        p \in {PosSmall, PosOffScreen}, st \in {"normal", "maximized"},
        z \in {"left", "center"}}
    \cup {[Entry(NotepadPath, TitleNotes, PosSmall, "normal", 0, NoSnap) EXCEPT !.tabs = TRUE]}

\* what raises while a record is placed
PlaceFaults(r, mons) ==
    IF r.snap_type = NoSnap
    THEN {[NoFault EXCEPT !.enum = e, !.pos_calls = c] :
             e \in BOOLEAN, c \in {{}, {1}, {2}, {3}}}
    ELSE {[enum |-> e, nearest |-> n, snap_calls |-> sc, pos_calls |-> c] :
             e \in BOOLEAN, n \in 0..Len(mons), sc \in {{}, {1}, {2}},
             c \in {{}, {2}}}

PlaceInit ==
    /\ SnapIdle
    /\ MatchIdle
    /\ CapIdle
    /\ PresetIdle
    /\ StoreIdle
    /\ \E r \in PlaceEntries, mons \in MonitorLists(MaxMonitors) :
          \E f \in PlaceFaults(r, mons) :
             /\ windows = <<r>>
             /\ monitors = mons
             /\ osfault = f
    /\ invocations = 1
    /\ live = <<Window(1, TitleNotes, NotepadProc, "maximized", PosSmall)>>
    /\ running = {}
    /\ pc = "idle"
    /\ idx = 0
    /\ polls = 0
    /\ success_count = 0
    /\ launched_session_apps = {}
    /\ result = NoResult
    /\ runs = 0
    /\ attempts = <<>>
    /\ outcome = <<>>
    /\ oslog = <<>>
    /\ session_launches = <<>>
    /\ session_toggle = RESTORE_SESSION_MANAGED_APPS

PlaceNext ==
    \/ StartRun /\ UNCHANGED <<storeVars, snapVars, matchVars, capVars, presetVars>>
    \/ PlaceFound /\ UNCHANGED <<storeVars, snapVars, matchVars, capVars, presetVars>>
    \/ Finish /\ UNCHANGED <<storeVars, snapVars, matchVars, capVars, presetVars>>

PlaceSpec == PlaceInit /\ [][PlaceNext]_vars

\* flags of the SetWindowPos of the generic placement, in the order logged
GenericFlags == <<"SWP_NOZORDER", "SWP_NOACTIVATE">>

\* positions in oslog of the generic placement's SetWindowPos calls that took
\* effect
GenericSet ==
    {c \in 1..Len(oslog) : /\ oslog[c].op = "SetWindowPos"
                           /\ SubSeq(oslog[c].arg, 5, Len(oslog[c].arg)) = GenericFlags
                           /\ oslog[c].after # Raised}

AppliedPos(c) == SubSeq(oslog[c].arg, 1, 4)

\* the work areas that could be read
WorkAreasNow == {monitors[i].work : i \in {k \in 1..Len(monitors) : monitors[k].info}}

\* rectangles (left, top, right, bottom) a and b meet
Meets(a, b) == a[1] < b[3] /\ b[1] < a[3] /\ a[2] < b[4] /\ b[2] < a[4]

\* the work area of the monitor at the record's saved index if that index is
\* valid in the monitor list, of monitor 0 otherwise
FallbackWork(r) ==
    IF r.monitor \in 0..(Len(monitors) - 1) THEN monitors[r.monitor + 1].work
    ELSE monitors[1].work

\* (x, y, w, h) p is the record's size, no smaller than 320x220 and no larger
\* than the larger of work area wa and 320x220, centred in wa (to the pixel)
\* along each axis on which it fits and at wa's edge otherwise, and inside wa
\* when wa is at least 320x220
Recentred(p, r, wa) ==
    LET ww == wa[3] - wa[1]
        wh == wa[4] - wa[2]
    IN /\ p[3] = Min(Max(MinWidth, r.pos[3]), Max(MinWidth, ww))
       /\ p[4] = Min(Max(MinHeight, r.pos[4]), Max(MinHeight, wh))
       /\ IF p[3] <= ww THEN 2 * (p[1] - wa[1]) \in {ww - p[3], ww - p[3] - 1}
          ELSE p[1] = wa[1]
       /\ IF p[4] <= wh THEN 2 * (p[2] - wa[2]) \in {wh - p[4], wh - p[4] - 1}
          ELSE p[2] = wa[2]
       /\ (ww >= MinWidth /\ wh >= MinHeight) => InsideWork(p, wa)

\* the record's saved rectangle with its size raised to at least 320x220
Enlarged(r) ==
    <<r.pos[1], r.pos[2], r.pos[1] + Max(MinWidth, r.pos[3]),
      r.pos[2] + Max(MinHeight, r.pos[4])>>

\* C21 as stated: when the saved rectangle of a record without snap_type
\* meets no current work area, the rectangle applied is recentred in the
\* work area of the saved monitor index, or of monitor 0.
C21_AsStated ==
    (/\ OtherDone
     /\ LastRec.snap_type = NoSnap
     /\ WorkAreasNow # {}
     /\ \A wa \in WorkAreasNow : ~Meets(RectOfPos(LastRec.pos), wa)) =>
        \A c \in GenericSet : Recentred(AppliedPos(c), LastRec, FallbackWork(LastRec))

\* C21: when the saved rectangle of a record without snap_type, with its
\* width and height raised to at least 320 and 220, meets no current work
\* area, the rectangle applied has that size capped to the work area of the
\* monitor at the saved index if that index is valid and of monitor 0
\* otherwise (never below 320x220), is centred in that work area, and lies
\* inside it whenever it is at least 320x220.
C21_RecentredWhenOff ==
    (/\ OtherDone
     /\ LastRec.snap_type = NoSnap
     /\ WorkAreasNow # {}
     /\ \A wa \in WorkAreasNow : ~Meets(Enlarged(LastRec), wa)) =>
        \A c \in GenericSet : Recentred(AppliedPos(c), LastRec, FallbackWork(LastRec))

\* C21 witness: the record saved at (5000,100) 200x100 on monitor 1, placed
\* with two monitors attached: 320x220 in the middle of the second work area
C21_Witness ==
    /\ OtherDone
    /\ LastRec.snap_type = NoSnap
    /\ LastRec.pos = PosOffScreen
    /\ LastRec.monitor = 1
    /\ monitors = <<Monitor(DesktopWork, TRUE), Monitor(SecondWork, TRUE)>>
    /\ \E c \in GenericSet : AppliedPos(c) = <<2720, 430, 320, 220>>

\* the call took effect
TookEffect(c) == c.after # Raised

\* C22: the generic placement calls the window in a fixed order: first
\* ShowWindow(SW_RESTORE), then SetWindowPos, and only then the call that
\* applies the state; for a maximized record ShowWindow(SW_MAXIMIZE) is the
\* last window call and comes after a SetWindowPos that took effect.
C22_RestoreMoveState ==
    (OtherDone /\ LastRec.snap_type = NoSnap) =>
        LET calls == WindowCallLog
        IN /\ Len(calls) <= 3
           /\ \A k \in 1..Len(calls) :
                 /\ k = 1 <=> (calls[k].op = "ShowWindow" /\ calls[k].arg = <<"SW_RESTORE">>)
                 /\ k = 2 <=> calls[k].op = "SetWindowPos"
                 /\ k = 3 <=> (calls[k].op = "ShowWindow" /\ calls[k].arg = <<"SW_MAXIMIZE">>)
                 /\ k > 1 => TookEffect(calls[k - 1])
                 /\ k = 3 => LastRec.state = "maximized"
           /\ (LastRec.state = "maximized" /\ Len(calls) >= 2 /\ TookEffect(calls[2])) =>
                 Len(calls) = 3

\* C22 witness: a maximized record placed without a raising call: the window
\* is restored, moved to the saved rectangle and then maximized
C22_Witness ==
    /\ OtherDone
    /\ LastRec.snap_type = NoSnap
    /\ LastRec.state = "maximized"
    /\ LastRec.pos = PosSmall
    /\ Len(WindowCallLog) = 3
    /\ WindowCallLog[2].op = "SetWindowPos"
    /\ WindowCallLog[2].after = RectOfPos(PosSmall)
    /\ WindowCallLog[3].arg = <<"SW_MAXIMIZE">>
    /\ TookEffect(WindowCallLog[3])
    /\ live[1].show = "maximized"
    /\ live[1].pos = PosSmall

\* flags handed to SetWindowPos by logged call c
FlagsOf(c) == Range(SubSeq(c.arg, 5, Len(c.arg)))

SnapFlags == <<"SWP_NOACTIVATE", "SWP_NOZORDER">>

\* SetWindowPos calls logged with flags fl
SetPosCalls(fl) ==
    {c \in 1..Len(oslog) : /\ oslog[c].op = "SetWindowPos"
                           /\ SubSeq(oslog[c].arg, 5, Len(oslog[c].arg)) = fl}

\* the snap placement went through
SnapApplied == \E c \in SetPosCalls(SnapFlags) : TookEffect(oslog[c])

\* the generic placement of the record in hand gets as far as its window calls
GenericReachesWindow ==
    /\ ~osfault.enum
    /\ \/ WorkAreasNow = {}
       \/ \E wa \in WorkAreasNow : Meets(Enlarged(LastRec), wa)
       \/ monitors[IF LastRec.monitor \in 0..(Len(monitors) - 1)
                   THEN LastRec.monitor + 1 ELSE 1].info

\* C28: a record of a program that is not session-managed whose window was
\* found is reported handled whichever Win32 call raises while it is placed;
\* a snap placement that did not go through is followed by the generic
\* placement, and one that did is not.
C28_PlacementNeverFails ==
    (OtherDone /\ oslog # <<>> /\ oslog[1].op = "EnumWindows" /\ oslog[1].hwnd # None) =>
        /\ LastOutcome = "ok"
        /\ success_count = OkCount
        /\ pc = "done" => result = 1
        /\ SnapApplied => SetPosCalls(GenericFlags) = {}
        /\ (~SnapApplied /\ GenericReachesWindow) =>
              \E k \in 1..Len(oslog) :
                 /\ oslog[k].op = "ShowWindow"
                 /\ oslog[k].arg = <<"SW_RESTORE">>
                 /\ \A c \in SetPosCalls(SnapFlags) : c < k
                 /\ (TookEffect(oslog[k]) => SetPosCalls(GenericFlags) # {})

\* C28 witness: ShowWindow raised in the snap placement and SetWindowPos in
\* the generic placement that followed; the record counts as restored
C28_Witness ==
    /\ pc = "done"
    /\ OtherDone
    /\ LastRec.snap_type = "left"
    /\ osfault.snap_calls = {1}
    /\ osfault.pos_calls = {2}
    /\ Len(WindowCallLog) = 3
    /\ ~TookEffect(WindowCallLog[1])
    /\ TookEffect(WindowCallLog[2])
    /\ WindowCallLog[3].op = "SetWindowPos"
    /\ ~TookEffect(WindowCallLog[3])
    /\ LastOutcome = "ok"
    /\ result = 1

\* C30: whenever a work area can be read, every SetWindowPos of the generic
\* placement is handed a width of at least 320 and a height of at least 220;
\* if the saved rectangle met a work area, the rectangle handed over has the
\* saved x and y and still meets that work area.
C30_MinimumSize ==
    (OtherDone /\ WorkAreasNow # {}) =>
        \A c \in SetPosCalls(GenericFlags) :
           LET p == AppliedPos(c)
           IN /\ p[3] >= 320
              /\ p[4] >= 220
              /\ \A wa \in WorkAreasNow :
                    Meets(RectOfPos(LastRec.pos), wa) =>
                       /\ p[1] = LastRec.pos[1]
                       /\ p[2] = LastRec.pos[2]
                       /\ Meets(RectOfPos(p), wa)

\* C30 witness: the record saved at (100,100) 50x50 inside the first monitor
\* is placed at (100,100) 320x220
C30_Witness ==
    /\ OtherDone
    /\ LastRec.pos = PosTiny
    /\ LastRec.snap_type = NoSnap
    /\ DesktopWork \in WorkAreasNow
    /\ \E c \in GenericSet : AppliedPos(c) = <<100, 100, 320, 220>>
    /\ LastRec.state = "normal"
    /\ live[1].pos = <<100, 100, 320, 220>>

\* handles that SetWindowPos was called on in log
MovedHandles(log) == {log[k].hwnd : k \in {j \in 1..Len(log) : log[j].op = "SetWindowPos"}}

\* C29: within one run no live window receives the placement of two records:
\* when a record of a program that is not session-managed is placed right
\* after another record of the same executable, it is not placed on a window
\* the other was placed on.
C29_OneRecordPerWindow ==
    [][(/\ attempts # <<>>
        /\ attempts' = Append(attempts, idx)
        /\ windows[idx].dict
        /\ LastRec.dict
        /\ ~is_session_managed(LastRec)
        /\ windows[idx].executable = LastRec.executable
        /\ idx # attempts[Len(attempts)])
       => MovedHandles(oslog) \cap MovedHandles(oslog') = {}]_vars

-----------------------------------------------------------------------------
(* WindowSpec: capture_windows over one window of any kind, on any set of   *)
(* monitors                                                                 *)

\* an excluded title inside a longer one, in another case
TitleDefenderLoose ==
    <<"x"," ","W","I","N","D","O","W","S"," ","d","e","f","e","n","d","e","r","!">>

WindowTitles == {TitleNotes, NoTitle, TitleProgman, TitleDefenderLoose, TitleSaveDialog}

\* every combination of what the eligibility tests read
EligibilityWindows ==
    {CapWindow(v, t, e, RectLeftHalf, sh, st, f) :
        v \in BOOLEAN, t \in WindowTitles, e \in {NotepadPath, ExplorerPath, PythonPath},
        sh \in {"normal", "maximized", "minimized"}, st \in {"app", "tool", "bare"},
        f \in {"none", "rect", "denied", "raise"}}

\* the second monitor, right of the first
SecondRect == <<1920, 0, 3840, 1080>>

RectOnSecond == <<2000, 100, 2800, 700>>

\* centre on the edge the two monitors share
RectAcross == <<1420, 100, 2420, 700>>

\* centre on the right edge of the second monitor
RectRightEdge == <<3340, 0, 4340, 1000>>

RectOff == <<5000, 100, 5200, 200>>

WindowRects ==
    {RectLeftHalf, RectFree, RectOnSecond, RectAcross, RectRightEdge, RectOff, MinimizedRect}

\* windows that are recorded, wherever they are
PlacedWindows ==
    {CapWindow(TRUE, TitleNotes, NotepadPath, r, sh, "app", "none") :
        r \in WindowRects, sh \in {"normal", "minimized"}}

CapMonitor(rect, info) == [rect |-> rect, info |-> info]

\* what get_monitor_info may find enumerated
CapMonitorLists ==
    {<<>>,
     <<CapMonitor(MonitorRects[1], TRUE)>>,
     <<CapMonitor(MonitorRects[1], TRUE), CapMonitor(SecondRect, TRUE)>>,
     <<CapMonitor(SecondRect, TRUE), CapMonitor(MonitorRects[1], TRUE)>>,
     <<CapMonitor(MonitorRects[1], TRUE), CapMonitor(SecondRect, FALSE)>>,
     <<CapMonitor(MonitorRects[1], FALSE), CapMonitor(SecondRect, TRUE)>>}

WindowInit ==
    /\ SnapIdle
    /\ MatchIdle
    /\ RunIdle
    /\ PresetIdle
    /\ StoreIdle
    /\ \/ /\ cLive \in {<<w>> : w \in EligibilityWindows}
          /\ cMonitors = [raises |-> FALSE, list |-> <<CapMonitor(MonitorRects[1], TRUE)>>]
       \/ /\ cLive \in {<<w>> : w \in PlacedWindows}
          /\ cMonitors \in [raises : BOOLEAN, list : CapMonitorLists]
    /\ cInclMin \in BOOLEAN
    /\ cPos = 0
    /\ cStop = 0
    /\ cRecords = <<>>
    /\ cPc = "idle"

WindowNext ==
    \/ CaptureStart /\ UNCHANGED <<storeVars, snapVars, matchVars, runVars, presetVars>>
    \/ CaptureVisit /\ UNCHANGED <<storeVars, snapVars, matchVars, runVars, presetVars>>
    \/ CaptureEnumFails /\ UNCHANGED <<storeVars, snapVars, matchVars, runVars, presetVars>>
    \/ CaptureReturn /\ UNCHANGED <<storeVars, snapVars, matchVars, runVars, presetVars>>

WindowSpec == WindowInit /\ [][WindowNext]_vars

\* the eligibility predicate, clause by clause
Eligible(w, include_minimized) ==
    /\ w.visible
    /\ w.title # <<>>
    /\ \A t \in EXCLUDED_TITLES : ~Contains(Lower(t), Lower(w.title))
    /\ Lower(LastPathPart(w.exe)) \notin EXCLUDED_PROCESSES
    /\ w.style # "tool"
    /\ w.style # "bare"
    /\ w.show = "minimized" => include_minimized
    /\ ~(/\ Lower(LastPathPart(w.exe)) \in PythonProcs
         /\ \E t \in EXCLUDED_TITLE_PARTS : Contains(Lower(t), Lower(w.title)))

\* C24: every record capture returns comes from a window that is visible,
\* has a title, has no excluded title inside its title (whatever the case),
\* is of no excluded process, has no tool-window style, has a title bar, is
\* not minimized unless include_minimized is set, and is no dialog of the
\* utility itself.
C24_RecordsEligible ==
    \A k \in 1..Len(cRecords) :
       /\ Eligible(cLive[k], cInclMin)
       /\ cRecords[k].title = cLive[k].title
       /\ cRecords[k].executable = cLive[k].exe
       /\ cRecords[k].state = cLive[k].show

\* C24 witness: a minimized notepad window recorded with include_minimized
C24_Witness ==
    /\ cPc = "returned"
    /\ cInclMin
    /\ Len(cRecords) = 1
    /\ cLive[1].show = "minimized"
    /\ cRecords[1].state = "minimized"
    /\ cRecords[1].executable = NotepadPath
    /\ cRecords[1].title = TitleNotes

\* the monitors of the enumeration whose bounds hold the centre of window w
Holding(w) ==
    LET cx == (w.rect[1] + w.rect[3]) \div 2
        cy == (w.rect[2] + w.rect[4]) \div 2
    IN {i \in 1..Len(cMonitors.list) :
          LET b == cMonitors.list[i].rect
          IN b[1] <= cx /\ cx <= b[3] /\ b[2] <= cy /\ cy <= b[4]}

\* C26: the monitor index of a captured record is the index of the first
\* monitor whose bounds hold the centre of the window, and 0 when no monitor
\* holds it or the enumeration fails; it is 0 or an index of the monitor list.
C26_MonitorOfCentre ==
    \A k \in 1..Len(cRecords) :
       LET m == cRecords[k].monitor
           holding == Holding(cLive[k])
           mons == cMonitors.list
       IN /\ m \in 0..Max(0, Len(mons) - 1)
          /\ cMonitors.raises => m = 0
          /\ holding = {} => m = 0
          /\ m # 0 => m + 1 \in holding
          /\ (~cMonitors.raises /\ holding # {} /\ \A j \in 1..Len(mons) : mons[j].info) =>
                /\ m + 1 \in holding
                /\ \A j \in holding : m + 1 <= j

\* C26 witness: with two monitors a window on the second is recorded with
\* monitor 1
C26_Witness ==
    /\ cPc = "returned"
    /\ Len(cRecords) = 1
    /\ cLive[1].rect = RectOnSecond
    /\ cMonitors = [raises |-> FALSE,
                    list |-> <<CapMonitor(MonitorRects[1], TRUE), CapMonitor(SecondRect, TRUE)>>]
    /\ cRecords[1].monitor = 1

\* C25: each step of the enumeration looks at the next window and never at one
\* it looked at before; a window whose process path cannot be resolved adds
\* no record, and no record has an empty executable.
C25_UnresolvedDropped ==
    [][(cPc = "enum" /\ cPos' # cPos) =>
          /\ cPos' = cPos + 1
          /\ cLive[cPos'].fault = "denied" => cRecords' = cRecords
          /\ \A k \in 1..Len(cRecords') : cRecords'[k].executable # <<>>]_vars

\* C25 witness: the second of three windows has no readable process; the
\* other two are recorded with their paths
C25_Witness ==
    /\ cPc = "returned"
    /\ cStop = 0
    /\ cPos = 3
    /\ Len(cLive) = 3
    /\ cLive[1].fault = "none"
    /\ cLive[2].fault = "denied"
    /\ cLive[2].visible
    /\ Len(cRecords) = 2
    /\ cRecords[1].executable = NotepadPath
    /\ cRecords[2].executable = NotepadPath

-----------------------------------------------------------------------------
(* StoreSpec: save_preset, delete_preset and delete_preset_by_id calls on   *)
(* a store that starts empty                                                *)

\* most presets in the store
MaxPresets == 3

\* most presets ever saved in a behaviour
MaxSaves == 4

NameWorkUpper == <<"W","O","R","K">>

NameWorkTwo == <<"w","o","r","k"," ","(","2",")">>

\* names handed to the calls
PresetNames == {NameWork, NameWorkUpper, NameWorkTwo, NameHome}

DigitOf == <<"1","2","3","4","5","6","7","8","9">>

\* str(n) for n >= 0
RECURSIVE IntToStr(_)
IntToStr(n) ==
    IF n < 10 THEN <<IF n = 0 THEN "0" ELSE DigitOf[n]>>
    ELSE IntToStr(n \div 10) \o <<IF n % 10 = 0 THEN "0" ELSE DigitOf[n % 10]>>

\* f"{name} ({counter})"
suffixed(name, counter) == name \o <<" ", "(">> \o IntToStr(counter) \o <<")">>

\* preset_manager.py:74
existing_names(presets) == {Lower(presets[k].name) : k \in 1..Len(presets)}

\* one suffix tried, taken whether or not it is in use
final_name_once(name, counter, existing) ==
    IF Lower(name) \in existing THEN suffixed(name, 2) ELSE name

\* preset_manager.py:75-79: the while loop, entered with final_name = name
\* and counter = 1
RECURSIVE final_name(_, _, _)
final_name(name, counter, existing) ==
    LET candidate == IF counter = 1 THEN name ELSE suffixed(name, counter)
    IN IF Lower(candidate) \in existing
       THEN final_name(name, counter + 1, existing)
       ELSE candidate

StoreInit ==
    /\ SnapIdle
    /\ MatchIdle
    /\ RunIdle
    /\ CapIdle
    /\ PresetIdle
    /\ StoreIdle

\* preset_manager.py:60-95; written is whether _save_presets could open the
\* file for writing (50-58)
SavePreset(name, written) ==
    /\ Len(stPresets) < MaxPresets
    /\ stNextId <= MaxSaves
    /\ LET preset == [id |-> stNextId,
                      name |-> final_name(name, 1, existing_names(stPresets))]
       IN /\ stPresets' = IF written THEN Append(stPresets, preset) ELSE stPresets
          /\ stLast' = [op |-> "save", arg |-> name, ret |-> written, before |-> stPresets]
    /\ stNextId' = stNextId + 1

\* preset_manager.py:154-174
DeletePreset(name, written) ==
    /\ LET keep(q) == Lower(q.name) # Lower(name)
           rest == SelectSeq(stPresets, keep)
           saved == Len(rest) < Len(stPresets) /\ written
       IN /\ stPresets' = IF saved THEN rest ELSE stPresets
          /\ stLast' = [op |-> "delete", arg |-> name, ret |-> saved, before |-> stPresets]
    /\ UNCHANGED stNextId

\* preset_manager.py:176-196
DeletePresetById(preset_id, written) ==
    /\ LET keep(q) == q.id # preset_id
           rest == SelectSeq(stPresets, keep)
           saved == Len(rest) < Len(stPresets) /\ written
       IN /\ stPresets' = IF saved THEN rest ELSE stPresets
          /\ stLast' = [op |-> "delete_by_id", arg |-> <<preset_id>>, ret |-> saved,
                        before |-> stPresets]
    /\ UNCHANGED stNextId

StoreNext ==
    \/ (\E name \in PresetNames, written \in BOOLEAN : SavePreset(name, written))
          /\ UNCHANGED <<snapVars, matchVars, runVars, capVars, presetVars>>
    \/ (\E name \in PresetNames, written \in BOOLEAN : DeletePreset(name, written))
          /\ UNCHANGED <<snapVars, matchVars, runVars, capVars, presetVars>>
    \/ (\E preset_id \in 1..MaxSaves, written \in BOOLEAN : DeletePresetById(preset_id, written))
          /\ UNCHANGED <<snapVars, matchVars, runVars, capVars, presetVars>>

StoreSpec == StoreInit /\ [][StoreNext]_vars

\* name is base, or base followed by " (k)" for a k of at least 2
SuffixOf(name, base) ==
    \/ name = base
    \/ \E k \in 2..(MaxSaves + 2) : name = suffixed(base, k)

\* C27: no two stored presets have names that are equal ignoring case; a
\* save that went through added one preset at the end, named as asked if the
\* name was free and "name (k)" otherwise, and left the presets before it as
\* they were; a save that did not go through left the store as it was.
C27_NamesUnique ==
    /\ \A a, b \in 1..Len(stPresets) :
          a # b => Lower(stPresets[a].name) # Lower(stPresets[b].name)
    /\ (stLast.op = "save" /\ stLast.ret) =>
          /\ Len(stPresets) = Len(stLast.before) + 1
          /\ SubSeq(stPresets, 1, Len(stLast.before)) = stLast.before
          /\ LET new == stPresets[Len(stPresets)].name
                 taken == {Lower(stLast.before[k].name) : k \in 1..Len(stLast.before)}
             IN /\ SuffixOf(new, stLast.arg)
                /\ Lower(new) \notin taken
                /\ new = stLast.arg <=> Lower(stLast.arg) \notin taken
    /\ (stLast.op = "save" /\ ~stLast.ret) => stPresets = stLast.before

\* C27 witness: "Work" and "work (2)" are stored and "WORK" is saved: it is
\* stored as "WORK (3)"
C27_Witness ==
    /\ Len(stPresets) = 3
    /\ stPresets[1].name = NameWork
    /\ stPresets[2].name = NameWorkTwo
    /\ stLast.op = "save"
    /\ stLast.arg = NameWorkUpper
    /\ stPresets[3].name = <<"W","O","R","K"," ","(","3",")">>

=============================================================================
